---- MODULE Spec2Model ----
(***************************************************************************)
(* A model of the recipe manager's document store: path confinement        *)
(* (FileSystemManager._validate_path), the file operations of              *)
(* FileSystemManager, the photo attachment that follows a recipe, and the  *)
(* route handlers of api/routes.py that drive them.                        *)
(*                                                                         *)
(* Strings are sequences of one-character strings, so that the regular     *)
(* expression, strip, split and prefix tests of the source are computed    *)
(* character by character.                                                 *)
(***************************************************************************)
EXTENDS Integers, Sequences, FiniteSets, TLC

VARIABLES
    resolved,   \* _validate_path and the photo path of every path that is sent
    vp_in,      \* the client-supplied path string handed to _validate_path
    vp_out,     \* what _validate_path answered for vp_in
    fs,         \* the directory tree under (and around) base_dir: path -> node
    ver,        \* the version counter of each document path (0: no document)
    resp,       \* the request last answered and its response
    lock,       \* per-path writer mutex of the versioned store
    wk,         \* the in-flight write_file call of each concurrent worker
    rd,         \* the result of the last concurrent read_file
    translation_cache,  \* api.translation.translation_cache: path -> entry
    st_mtime,   \* the modification time of each document file
    tr,         \* the translation request last answered and its response
    sr,         \* the search request last answered and its response
    rq          \* the in-flight translate_recipe call of each concurrent client

vars == <<resolved, vp_in, vp_out, fs, ver, resp, lock, wk, rd,
          translation_cache, st_mtime, tr, sr, rq>>

----------------------------------------------------------------------------
(* Bounds of the model.                                                    *)

\* the greatest modification time a document file gets
MaxMtime == 2

\* the greatest limit a search is asked with
MaxLimit == 2

\* fragments concatenated into one client path string
MaxFrags == 3
\* highest version a document reaches
MaxVersion == 2

----------------------------------------------------------------------------
(* String helpers: what str.startswith, str.endswith, str.strip("/"),      *)
(* re.sub and str.split do.                                                *)

startswith(s, prefix) ==
    /\ Len(prefix) <= Len(s)
    /\ SubSeq(s, 1, Len(prefix)) = prefix

endswith(s, suffix) ==
    /\ Len(suffix) <= Len(s)
    /\ SubSeq(s, Len(s) - Len(suffix) + 1, Len(s)) = suffix

RECURSIVE lstrip_slash(_)
lstrip_slash(s) ==
    IF s # <<>> /\ Head(s) = "/" THEN lstrip_slash(Tail(s)) ELSE s

RECURSIVE rstrip_slash(_)
rstrip_slash(s) ==
    IF s # <<>> /\ s[Len(s)] = "/"
    THEN rstrip_slash(SubSeq(s, 1, Len(s) - 1))
    ELSE s

\* str.strip("/")
strip_slash(s) == rstrip_slash(lstrip_slash(s))

\* re.sub(r"\.\./", "", s): one left-to-right pass over non-overlapping matches
RECURSIVE re_sub_dotdotslash(_)
re_sub_dotdotslash(s) ==
    IF Len(s) < 3 THEN s
    ELSE IF SubSeq(s, 1, 3) = <<".", ".", "/">>
         THEN re_sub_dotdotslash(SubSeq(s, 4, Len(s)))
         ELSE <<Head(s)>> \o re_sub_dotdotslash(Tail(s))

\* s.split("/"): the segments between separators (empty segments kept)
RECURSIVE split_slash(_, _)
split_slash(s, cur) ==
    IF s = <<>> THEN <<cur>>
    ELSE IF Head(s) = "/"
         THEN <<cur>> \o split_slash(Tail(s), <<>>)
         ELSE split_slash(Tail(s), Append(cur, Head(s)))

----------------------------------------------------------------------------
(* Path.resolve() without symbolic links: "" and "." segments vanish, ".." *)
(* removes the segment before it and is dropped at the filesystem root.    *)

RECURSIVE normalize_segments(_, _)
normalize_segments(stack, segs) ==
    IF segs = <<>> THEN stack
    ELSE LET h == Head(segs) IN
         IF h = <<>> \/ h = <<".">>
         THEN normalize_segments(stack, Tail(segs))
         ELSE IF h = <<".", ".">>
              THEN normalize_segments(
                       IF stack = <<>> THEN <<>>
                       ELSE SubSeq(stack, 1, Len(stack) - 1),
                       Tail(segs))
              ELSE normalize_segments(Append(stack, h), Tail(segs))

RECURSIVE join_segments(_)
join_segments(segs) ==
    IF segs = <<>> THEN <<>>
    ELSE <<"/">> \o Head(segs) \o join_segments(Tail(segs))

resolve(p) ==
    LET segs == normalize_segments(<<>>, split_slash(p, <<>>))
    IN  IF segs = <<>> THEN <<"/">> ELSE join_segments(segs)

\* self.base_dir: the resolved root directory, here /r (its sibling is /r2)
base_dir == <<"/", "r">>

\* self.base_dir / clean_path, for a clean_path that has no leading separator
path_join(base, rel) ==
    IF rel = <<>> THEN base ELSE base \o <<"/">> \o rel

\* clean_path of _validate_path
clean_path(path) == strip_slash(re_sub_dotdotslash(path))

\* (mutant) the containment test left out
within_base_dir_NoCheck(full) == TRUE

\* the containment test of _validate_path: a plain string prefix
within_base_dir(full) == startswith(full, base_dir)

_validate_path(path) ==
    LET full == resolve(path_join(base_dir, clean_path(path)))
    IN  IF ~within_base_dir(full)
        THEN [status |-> 400, detail |-> "Invalid path", path |-> <<>>]
        ELSE [status |-> 200, detail |-> "", path |-> full]

----------------------------------------------------------------------------
(* Path arithmetic of pathlib and os.path.                                 *)

\* the greatest index of c in s, 0 when s has no c
RECURSIVE last_index_of(_, _)
last_index_of(s, c) ==
    IF s = <<>> THEN 0
    ELSE IF s[Len(s)] = c THEN Len(s)
         ELSE last_index_of(SubSeq(s, 1, Len(s) - 1), c)

\* Path.name
path_name(p) == SubSeq(p, last_index_of(p, "/") + 1, Len(p))

\* Path.parent
path_parent(p) ==
    LET i == last_index_of(p, "/")
    IN  IF i <= 1 THEN <<"/">> ELSE SubSeq(p, 1, i - 1)

\* os.path.splitext(name)[0]: cut at the last dot that follows a non-dot
splitext_root(name) ==
    LET i == last_index_of(name, ".")
    IN  IF i > 1 /\ \E k \in 1..(i - 1) : name[k] # "."
        THEN SubSeq(name, 1, i - 1)
        ELSE name

MD == <<".", "m", "d">>
JPEG == <<".", "j", "p", "e", "g">>

_get_photo_path_for_recipe(recipe_path) ==
    LET v == _validate_path(recipe_path)
    IN  IF v.status # 200 THEN v
        ELSE [v EXCEPT !.path =
                 path_join(path_parent(v.path),
                           splitext_root(path_name(v.path)) \o JPEG)]

----------------------------------------------------------------------------
(* The requests of the model: the client paths, document contents and      *)
(* photo bytes that are sent, and the tree they can touch.                 *)

P_a == <<"a", ".", "m", "d">>
P_db == <<"d", "/", "b", ".", "m", "d">>
P_d == <<"d">>

ClientPaths == {P_a, P_db}
DirPaths == {P_d}

Contents == { <<"x", "x">>, <<"y">> }
PhotoBytes == { <<"J">> }

DocFiles == { _validate_path(p).path : p \in ClientPaths }
PhotoFiles == { _get_photo_path_for_recipe(p).path : p \in ClientPaths }
Dirs == {base_dir} \cup { path_parent(q) : q \in DocFiles \cup PhotoFiles }
                   \cup { _validate_path(p).path : p \in DirPaths }
FsPaths == DocFiles \cup PhotoFiles \cup Dirs

Absent == [kind |-> "absent", data |-> <<>>]
Dir == [kind |-> "dir", data |-> <<>>]
File(data) == [kind |-> "file", data |-> data]

\* Path.exists(), Path.is_file(), Path.is_dir()
exists(f, p) == f[p].kind # "absent"
is_file(f, p) == f[p].kind = "file"
is_dir(f, p) == f[p].kind = "dir"

\* Path.mkdir(parents=True, exist_ok=True) of directory d
mkdir_parents(f, d) ==
    LET chain == { q \in DOMAIN f : q = d \/ startswith(d, q \o <<"/">>) }
    IN  IF \E q \in chain : is_file(f, q)
        THEN [ok |-> FALSE, fs |-> f]
        ELSE [ok |-> TRUE,
              fs |-> [q \in DOMAIN f |-> IF q \in chain THEN Dir ELSE f[q]]]


\* (mutant) the file is opened without being truncated
open_w_NoTruncate(f, p) == IF is_file(f, p) THEN f ELSE [f EXCEPT ![p] = File(<<>>)]

\* open(p, "w"): the file is created, or truncated to nothing
open_w(f, p) == [f EXCEPT ![p] = File(<<>>)]


\* (mutant) the buffered text never reaches the file
flush_close_Lost(f, p, data) == f

\* the buffered text reaches the file when it is closed: it is written from
\* offset 0 of the descriptor over whatever the file holds by then (nothing is
\* left of it in the tree when the file was unlinked in between)
flush_close(f, p, data) ==
    IF ~is_file(f, p) THEN f
    ELSE [f EXCEPT ![p] =
             File(data \o SubSeq(f[p].data, Len(data) + 1, Len(f[p].data)))]

\* (mutant) every file of the directory tree is removed
unlink_AllFiles(f, p) == [q \in DOMAIN f |-> IF is_file(f, q) THEN Absent ELSE f[q]]

\* Path.unlink()
unlink(f, p) == [f EXCEPT ![p] = Absent]


\* (mutant) the file is copied to new and left at old
rename_Copy(f, old, new) == [f EXCEPT ![new] = f[old]]

\* Path.rename(new): replaces a file at new
rename(f, old, new) ==
    IF old = new THEN f
    ELSE [f EXCEPT ![new] = f[old], ![old] = Absent]


\* the recipe names a client sends without the .md suffix
BareRecipePaths == { <<"a">> }
RecipePaths == ClientPaths \cup BareRecipePaths
\* the path of the root directory, as the routes receive it
P_root == <<>>
RequestPaths == ClientPaths \cup DirPaths \cup RecipePaths \cup {P_root}

\* _validate_path and _get_photo_path_for_recipe of every path that is sent:
\* computed once, when the state is initialised, and looked up afterwards
ResolvedPaths ==
    [validated |-> [p \in RequestPaths |-> _validate_path(p)],
     photo |-> [p \in RequestPaths |-> _get_photo_path_for_recipe(p)]]
validated(path) == resolved.validated[path]
photo_path_for(path) == resolved.photo[path]

----------------------------------------------------------------------------
(* FileSystemManager: the document operations.  Each returns its HTTP      *)
(* status (200, or the status of the HTTPException it raises) and the tree *)
(* it leaves.                                                              *)

\* str.lower() of one character
lower(c) ==
    CASE c = "A" -> "a" [] c = "B" -> "b" [] c = "C" -> "c" [] c = "D" -> "d"
      [] c = "E" -> "e" [] c = "G" -> "g" [] c = "J" -> "j"
      [] c = "M" -> "m" [] c = "P" -> "p" [] c = "X" -> "x"
      [] c = "Y" -> "y" [] OTHER -> c

lower_str(s) == [i \in 1..Len(s) |-> lower(s[i])]

\* Path.suffix: from the last dot of the name on, when that dot is neither
\* the first nor the last character of the name
path_suffix(p) ==
    LET name == path_name(p)
        i == last_index_of(name, ".")
    IN  IF i > 1 /\ i < Len(name) THEN SubSeq(name, i, Len(name)) ELSE <<>>

\* item.relative_to(self.base_dir)
relative_to_base(q) == SubSeq(q, Len(base_dir) + 2, Len(q))

\* dir_path.iterdir()
iterdir(f, d) == { q \in DOMAIN f : q # d /\ exists(f, q) /\ path_parent(q) = d }

\* the characters of the model in the order of their code points
CodePoints ==
    << "-", ".", "/", "2", "A", "B", "C", "D", "E", "G", "J", "M", "P", "X",
       "Y", "a", "b", "c", "d", "e", "g", "h", "i", "j", "k", "l", "m", "n",
       "o", "p", "r", "s", "t", "v", "x", "y" >>
ord(c) == CHOOSE i \in 1..Len(CodePoints) : CodePoints[i] = c

\* a < b for two str
RECURSIVE str_lt(_, _)
str_lt(a, b) ==
    IF b = <<>> THEN FALSE
    ELSE IF a = <<>> THEN TRUE
    ELSE IF Head(a) = Head(b) THEN str_lt(Tail(a), Tail(b))
    ELSE ord(Head(a)) < ord(Head(b))

\* the sort key of list_directory: (x["type"] == "file", x["name"])
item_lt(x, y) ==
    \/ x.type # "file" /\ y.type = "file"
    \/ (x.type = "file") = (y.type = "file") /\ str_lt(x.name, y.name)

\* sorted(items, key=...): the names within one directory are distinct
RECURSIVE sorted_items(_)
sorted_items(items) ==
    IF items = {} THEN <<>>
    ELSE LET first == CHOOSE x \in items : \A y \in items \ {x} : item_lt(x, y)
         IN  <<first>> \o sorted_items(items \ {first})

directory_item(f, q) ==
    [name |-> path_name(q),
     path |-> relative_to_base(q),
     type |-> IF is_dir(f, q) THEN "directory" ELSE "file",
     size |-> IF is_file(f, q) THEN {Len(f[q].data)} ELSE {}]


\* (mutant) the photo files are listed like any other file
list_directory_NoFilter(f, path) ==
    LET v == validated(path)
    IN  IF v.status # 200 \/ is_file(f, v.path)
        THEN [status |-> 500, detail |-> "Failed to list directory", items |-> <<>>]
        ELSE IF ~exists(f, v.path)
             THEN [status |-> 200, detail |-> "", items |-> <<>>]
             ELSE [status |-> 200, detail |-> "",
                   items |-> sorted_items({ directory_item(f, q) :
                                            q \in iterdir(f, v.path) })]

\* lines 36-63: every exception (the HTTPException of _validate_path, the
\* NotADirectoryError of iterdir on a file) leaves as status 500
list_directory(f, path) ==
    LET v == validated(path)
    IN  IF v.status # 200 \/ is_file(f, v.path)
        THEN [status |-> 500, detail |-> "Failed to list directory", items |-> <<>>]
        ELSE IF ~exists(f, v.path)
             THEN [status |-> 200, detail |-> "", items |-> <<>>]
             ELSE [status |-> 200, detail |-> "",
                   items |-> sorted_items(
                       { directory_item(f, q) :
                           q \in { q \in iterdir(f, v.path) :
                                     ~(is_file(f, q)
                                       /\ lower_str(path_suffix(q)) = JPEG) } })]


\* (mutant) a directory is read like an empty file
read_file_ReadsDir(f, path) ==
    LET v == validated(path)
    IN  IF v.status # 200
        THEN [status |-> 400, detail |-> "Invalid path", content |-> <<>>]
        ELSE IF ~exists(f, v.path)
             THEN [status |-> 404, detail |-> "File not found", content |-> <<>>]
             ELSE [status |-> 200, detail |-> "", content |-> f[v.path].data]

read_file(f, path) ==
    LET v == validated(path)
    IN  IF v.status # 200
        THEN [status |-> 400, detail |-> "Invalid path", content |-> <<>>]
        ELSE IF ~exists(f, v.path) \/ ~is_file(f, v.path)
             THEN [status |-> 404, detail |-> "File not found", content |-> <<>>]
             ELSE [status |-> 200, detail |-> "", content |-> f[v.path].data]

\* the write of lines 84-95: every exception, the HTTPException of
\* _validate_path included, leaves as status 500
write_file(f, path, content) ==
    LET v == validated(path)
    IN  IF v.status # 200
        THEN [status |-> 500, detail |-> "Failed to write file", fs |-> f]
        ELSE LET m == mkdir_parents(f, path_parent(v.path))
             IN  IF ~m.ok \/ ~is_dir(m.fs, path_parent(v.path)) \/ is_dir(m.fs, v.path)
                 THEN [status |-> 500, detail |-> "Failed to write file", fs |-> f]
                 ELSE [status |-> 200, detail |-> "File saved successfully",
                       fs |-> flush_close(open_w(m.fs, v.path), v.path, content)]

delete_photo(f, recipe_path, unlink_fails) ==
    LET v == photo_path_for(recipe_path)
    IN  IF v.status # 200
        THEN [status |-> 400, detail |-> "Invalid path", fs |-> f]
        ELSE IF exists(f, v.path) /\ is_file(f, v.path)
             THEN IF unlink_fails
                  THEN [status |-> 500, detail |-> "Failed to delete photo", fs |-> f]
                  ELSE [status |-> 200, detail |-> "Photo deleted successfully",
                        fs |-> unlink(f, v.path)]
             ELSE [status |-> 404, detail |-> "Photo not found", fs |-> f]



\* (mutant) what delete_photo raises ends delete_file
delete_file_PhotoErrorRaised(f, path, photo_unlink_fails) ==
    LET v == validated(path)
    IN  IF v.status # 200
        THEN [status |-> 400, detail |-> "Invalid path", fs |-> f]
        ELSE IF ~exists(f, v.path)
             THEN [status |-> 404, detail |-> "File not found", fs |-> f]
             ELSE IF is_file(f, v.path)
                  THEN LET dp == delete_photo(f, path, photo_unlink_fails)
                       IN  IF endswith(path, MD) /\ dp.status # 200
                           THEN [status |-> dp.status, detail |-> dp.detail,
                                 fs |-> f]
                           ELSE [status |-> 200,
                                 detail |-> "File deleted successfully",
                                 fs |-> unlink(dp.fs, v.path)]
                  ELSE [status |-> 400, detail |-> "Path is not a file", fs |-> f]

\* (mutant) a directory is reported like a missing file
delete_file_DirAsMissing(f, path, photo_unlink_fails) ==
    LET v == validated(path)
    IN  IF v.status # 200
        THEN [status |-> 400, detail |-> "Invalid path", fs |-> f]
        ELSE IF ~exists(f, v.path) \/ ~is_file(f, v.path)
             THEN [status |-> 404, detail |-> "File not found", fs |-> f]
             ELSE LET g == IF endswith(path, MD)
                           THEN delete_photo(f, path, photo_unlink_fails).fs
                           ELSE f
                  IN  [status |-> 200, detail |-> "File deleted successfully",
                       fs |-> unlink(g, v.path)]

\* (mutant) the photo of a deleted recipe is left behind
delete_file_KeepPhoto(f, path, photo_unlink_fails) ==
    LET v == validated(path)
    IN  IF v.status # 200
        THEN [status |-> 400, detail |-> "Invalid path", fs |-> f]
        ELSE IF ~exists(f, v.path)
             THEN [status |-> 404, detail |-> "File not found", fs |-> f]
             ELSE IF is_file(f, v.path)
                  THEN [status |-> 200, detail |-> "File deleted successfully",
                        fs |-> unlink(f, v.path)]
                  ELSE [status |-> 400, detail |-> "Path is not a file", fs |-> f]

\* lines 101-129; photo_unlink_fails: the unlink of the photo raises OSError
delete_file(f, path, photo_unlink_fails) ==
    LET v == validated(path)
    IN  IF v.status # 200
        THEN [status |-> 400, detail |-> "Invalid path", fs |-> f]
        ELSE IF ~exists(f, v.path)
             THEN [status |-> 404, detail |-> "File not found", fs |-> f]
             ELSE IF is_file(f, v.path)
                  THEN LET g == IF endswith(path, MD)
                                THEN delete_photo(f, path, photo_unlink_fails).fs
                                ELSE f
                       IN  [status |-> 200, detail |-> "File deleted successfully",
                            fs |-> unlink(g, v.path)]
                  ELSE [status |-> 400, detail |-> "Path is not a file", fs |-> f]

create_directory(f, path) ==
    LET v == validated(path)
    IN  IF v.status # 200
        THEN [status |-> 500, detail |-> "Failed to create directory", fs |-> f]
        ELSE LET m == mkdir_parents(f, v.path)
             IN  IF ~m.ok
                 THEN [status |-> 500, detail |-> "Failed to create directory", fs |-> f]
                 ELSE [status |-> 200, detail |-> "Directory created successfully",
                       fs |-> m.fs]

photo_exists(f, recipe_path) ==
    LET v == photo_path_for(recipe_path)
    IN  v.status = 200 /\ exists(f, v.path) /\ is_file(f, v.path)

write_photo(f, recipe_path, photo_content) ==
    LET v == photo_path_for(recipe_path)
    IN  IF v.status # 200
        THEN [status |-> 500, detail |-> "Failed to save photo", fs |-> f]
        ELSE LET m == mkdir_parents(f, path_parent(v.path))
             IN  IF ~m.ok \/ is_dir(m.fs, v.path)
                 THEN [status |-> 500, detail |-> "Failed to save photo", fs |-> f]
                 ELSE [status |-> 200, detail |-> "Photo saved successfully",
                       fs |-> [m.fs EXCEPT ![v.path] = File(photo_content)]]


\* (mutant) the parent directories are made before the look for a photo
move_photo_MkdirFirst(f, old_recipe_path, new_recipe_path, rename_fails) ==
    LET o == photo_path_for(old_recipe_path)
        n == photo_path_for(new_recipe_path)
    IN  IF o.status # 200 \/ n.status # 200 THEN [ok |-> FALSE, fs |-> f]
        ELSE LET m == mkdir_parents(f, path_parent(n.path))
             IN  IF ~m.ok THEN [ok |-> FALSE, fs |-> f]
                 ELSE IF ~exists(f, o.path) THEN [ok |-> TRUE, fs |-> m.fs]
                 ELSE IF rename_fails \/ is_dir(m.fs, n.path)
                      THEN [ok |-> FALSE, fs |-> m.fs]
                      ELSE [ok |-> TRUE, fs |-> rename(m.fs, o.path, n.path)]

\* rename_fails: the rename raises OSError
move_photo(f, old_recipe_path, new_recipe_path, rename_fails) ==
    LET o == photo_path_for(old_recipe_path)
        n == photo_path_for(new_recipe_path)
    IN  IF o.status # 200 THEN [ok |-> FALSE, fs |-> f]
        ELSE IF ~exists(f, o.path) THEN [ok |-> TRUE, fs |-> f]
        ELSE IF n.status # 200 THEN [ok |-> FALSE, fs |-> f]
        ELSE LET m == mkdir_parents(f, path_parent(n.path))
             IN  IF ~m.ok THEN [ok |-> FALSE, fs |-> f]
                 ELSE IF rename_fails \/ is_dir(m.fs, n.path)
                      THEN [ok |-> FALSE, fs |-> m.fs]
                      ELSE [ok |-> TRUE, fs |-> rename(m.fs, o.path, n.path)]

----------------------------------------------------------------------------
(* The versioned store: the version counter of a document and the          *)
(* expected-version check of a write.  s is the pair of the tree and the   *)
(* counters; expected is {} when the caller passes no version and {e}      *)
(* when it passes e.                                                       *)


\* (mutant) the expected version is never compared
version_conflict_Never(s, p, expected) == FALSE

version_conflict(s, p, expected) ==
    /\ is_file(s.fs, p)
    /\ expected # {}
    /\ expected # {s.ver[p]}


\* (mutant) a rewrite leaves the counter where it was
next_version_Stuck(s, p) == IF is_file(s.fs, p) THEN s.ver[p] ELSE 1

next_version(s, p) == IF is_file(s.fs, p) THEN s.ver[p] + 1 ELSE 1

write_file_versioned(s, path, content, expected) ==
    LET v == validated(path)
    IN  IF v.status = 200 /\ version_conflict(s, v.path, expected)
        THEN [status |-> 409, detail |-> "version_conflict",
              fs |-> s.fs, ver |-> s.ver, version |-> 0,
              expected |-> expected, current |-> s.ver[v.path]]
        ELSE LET w == write_file(s.fs, path, content)
             IN  IF w.status # 200
                 THEN [status |-> w.status, detail |-> w.detail,
                       fs |-> s.fs, ver |-> s.ver, version |-> 0,
                       expected |-> expected, current |-> 0]
                 ELSE [status |-> 200, detail |-> w.detail,
                       fs |-> w.fs,
                       ver |-> [s.ver EXCEPT ![v.path] = next_version(s, v.path)],
                       version |-> next_version(s, v.path),
                       expected |-> expected, current |-> 0]

read_file_with_version(s, path) ==
    LET r == read_file(s.fs, path)
    IN  [status |-> r.status, detail |-> r.detail, content |-> r.content,
         version |-> IF r.status = 200 THEN s.ver[validated(path).path] ELSE 0]

delete_file_versioned(s, path, photo_unlink_fails) ==
    LET d == delete_file(s.fs, path, photo_unlink_fails)
    IN  [status |-> d.status, detail |-> d.detail, fs |-> d.fs,
         ver |-> IF d.status = 200
                 THEN [s.ver EXCEPT ![validated(path).path] = 0]
                 ELSE s.ver]

----------------------------------------------------------------------------
(* The route handlers of api/routes.py, one action each: a request is      *)
(* answered in one step.                                                   *)

Store == [fs |-> fs, ver |-> ver]

Resp(op, path, status) ==
    [op |-> op, path |-> path, status |-> status, arg |-> <<>>,
     sent |-> {}, content |-> <<>>, version |-> 0, expected |-> {},
     current |-> 0, fault |-> FALSE, detail |-> "", photo |-> FALSE,
     moved |-> TRUE, listing |-> <<>>,
     file |-> [filename |-> <<>>, content_type |-> <<>>, size |-> 0,
               content |-> <<>>]]

\* the guard that keeps the version counters within the model's bound
WithinMaxVersion(w) == w.status = 200 => w.version <= MaxVersion

\* if not path.endswith(".md"): path += ".md"
with_md(path) == IF endswith(path, MD) THEN path ELSE path \o MD

\* sent: the version the request carried ({} when it carries none)
Answer(op, path, content, sent, w) ==
    /\ WithinMaxVersion(w)
    /\ fs' = w.fs
    /\ ver' = w.ver
    /\ resp' = [Resp(op, path, w.status) EXCEPT
                   !.arg = content, !.sent = sent, !.version = w.version,
                   !.expected = IF w.status = 409 THEN w.expected ELSE {},
                   !.current = w.current, !.detail = w.detail]
    /\ UNCHANGED <<sr, rq, translation_cache, st_mtime, tr, resolved, vp_in, vp_out, lock, wk, rd>>

get_file_content(path) ==
    \E r \in {read_file_with_version(Store, path)} :
        /\ resp' = [Resp("get_file_content", path, r.status) EXCEPT
                       !.content = r.content, !.version = r.version,
                       !.detail = r.detail]
        /\ UNCHANGED <<sr, rq, translation_cache, st_mtime, tr, resolved, vp_in, vp_out, fs, ver, lock, wk, rd>>

update_file_content(path, content, version) ==
    \E w \in {write_file_versioned(Store, path, content, {version})} :
        Answer("update_file_content", path, content, {version}, w)

create_file(path, content) ==
    \E w \in {write_file_versioned(Store, path, content, {})} :
        Answer("create_file", path, content, {}, w)

save_recipe(path, content, version) ==
    \E w \in {write_file_versioned(Store, with_md(path), content, {version})} :
        Answer("save_recipe", with_md(path), content, {version}, w)

\* str.replace(old, new) for the replacements of create_recipe
RECURSIVE replace_all(_, _, _)
replace_all(s, old, new) ==
    IF Len(s) < Len(old) \/ s = <<>> THEN s
    ELSE IF SubSeq(s, 1, Len(old)) = old
         THEN new \o replace_all(SubSeq(s, Len(old) + 1, Len(s)), old, new)
         ELSE <<Head(s)>> \o replace_all(Tail(s), old, new)

Lower == {"a", "b", "d", "m", "x", "y"}
upper(c) ==
    CASE c = "a" -> "A" [] c = "b" -> "B" [] c = "d" -> "D"
      [] c = "m" -> "M" [] c = "x" -> "X" [] c = "y" -> "Y"
      [] OTHER -> c

\* str.title(): a letter is upper-cased exactly when no letter precedes it
title_case(s) ==
    [i \in 1..Len(s) |->
        IF s[i] \in Lower /\ (i = 1 \/ s[i - 1] \notin Lower)
        THEN upper(s[i]) ELSE s[i]]

recipe_template(path) ==
    LET title == title_case(
                     replace_all(replace_all(replace_all(path, MD, <<>>),
                                             <<"_">>, <<" ">>),
                                 <<"-">>, <<" ">>))
    IN  <<"#", " ">> \o title \o
       << "\n", "\n", "#", "#", " ", "I", "n", "g", "r", "e", "d", "i",
       "e", "n", "t", "s", "\n", "\n", "-", " ", "\n", "\n", "#", "#",
       " ", "I", "n", "s", "t", "r", "u", "c", "t", "i", "o", "n",
       "s", "\n", "\n", "1", ".", " ", "\n", "\n", "#", "#", " ", "N",
       "o", "t", "e", "s", "\n", "\n" >>

create_recipe(path) ==
    \E content \in {recipe_template(with_md(path))} :
    \E w \in {write_file_versioned(Store, with_md(path), content, {})} :
        Answer("create_recipe", with_md(path), content, {}, w)

\* photo_unlink_fails: the unlink of the photo raises OSError (it can only
\* when there is a photo to unlink)
delete_file_route(path, photo_unlink_fails) ==
    \E d \in {delete_file_versioned(Store, path, photo_unlink_fails)} :
        /\ photo_unlink_fails => endswith(path, MD) /\ photo_exists(fs, path)
        /\ fs' = d.fs
        /\ ver' = d.ver
        /\ resp' = [Resp("delete_file", path, d.status) EXCEPT
                       !.fault = photo_unlink_fails, !.detail = d.detail,
                       !.photo = endswith(path, MD) /\ photo_exists(fs, path)]
        /\ UNCHANGED <<sr, rq, translation_cache, st_mtime, tr, resolved, vp_in, vp_out, lock, wk, rd>>

\* (mutant) a photo that could not be moved ends the request
move_file_PhotoFatal(path, destination, rename_fails, photo_unlink_fails) ==
    \E r \in {read_file(fs, path)} :
    \E mp \in {IF r.status = 200 /\ endswith(path, MD) /\ endswith(destination, MD)
               THEN move_photo(fs, path, destination, rename_fails)
               ELSE [ok |-> TRUE, fs |-> fs]} :
    \E w \in {write_file_versioned([fs |-> mp.fs, ver |-> ver], destination,
                                   r.content, {})} :
    \E d \in {delete_file_versioned([fs |-> w.fs, ver |-> w.ver], path,
                                    photo_unlink_fails)} :
    \E out \in {IF r.status # 200
                THEN [status |-> r.status, detail |-> r.detail,
                      fs |-> fs, ver |-> ver]
                ELSE IF ~mp.ok
                     THEN [status |-> 500, detail |-> "Failed to move photo",
                           fs |-> mp.fs, ver |-> ver]
                ELSE IF w.status # 200
                     THEN [status |-> w.status, detail |-> w.detail,
                           fs |-> mp.fs, ver |-> ver]
                     ELSE [status |-> d.status,
                           detail |-> IF d.status = 200 THEN "File moved"
                                      ELSE d.detail,
                           fs |-> d.fs, ver |-> d.ver]} :
        /\ WithinMaxVersion(w)
        /\ rename_fails => endswith(path, MD) /\ photo_exists(fs, path)
        /\ photo_unlink_fails => endswith(path, MD) /\ photo_exists(w.fs, path)
        /\ fs' = out.fs
        /\ ver' = out.ver
        /\ resp' = [Resp("move_file", path, out.status) EXCEPT
                       !.arg = destination, !.content = r.content,
                       !.fault = rename_fails \/ photo_unlink_fails,
                       !.detail = out.detail, !.moved = mp.ok,
                       !.photo = endswith(path, MD) /\ photo_exists(fs, path)]
        /\ UNCHANGED <<sr, rq, translation_cache, st_mtime, tr, resolved, vp_in, vp_out, lock, wk, rd>>

\* each await of move_file that raises ends the request with what was done
\* before it; the value move_photo returns is not looked at.  rename_fails,
\* photo_unlink_fails: the rename of the photo, the unlink of the photo
\* raises OSError
move_file(path, destination, rename_fails, photo_unlink_fails) ==
    \E r \in {read_file(fs, path)} :
    \E mp \in {IF r.status = 200 /\ endswith(path, MD) /\ endswith(destination, MD)
               THEN move_photo(fs, path, destination, rename_fails)
               ELSE [ok |-> TRUE, fs |-> fs]} :
    \E w \in {write_file_versioned([fs |-> mp.fs, ver |-> ver], destination,
                                   r.content, {})} :
    \E d \in {delete_file_versioned([fs |-> w.fs, ver |-> w.ver], path,
                                    photo_unlink_fails)} :
    \E out \in {IF r.status # 200
                THEN [status |-> r.status, detail |-> r.detail,
                      fs |-> fs, ver |-> ver]
                ELSE IF w.status # 200
                     THEN [status |-> w.status, detail |-> w.detail,
                           fs |-> mp.fs, ver |-> ver]
                     ELSE [status |-> d.status,
                           detail |-> IF d.status = 200 THEN "File moved"
                                      ELSE d.detail,
                           fs |-> d.fs, ver |-> d.ver]} :
        /\ WithinMaxVersion(w)
        /\ rename_fails => endswith(path, MD) /\ photo_exists(fs, path)
        /\ photo_unlink_fails => endswith(path, MD) /\ photo_exists(w.fs, path)
        /\ fs' = out.fs
        /\ ver' = out.ver
        /\ resp' = [Resp("move_file", path, out.status) EXCEPT
                       !.arg = destination, !.content = r.content,
                       !.fault = rename_fails \/ photo_unlink_fails,
                       !.detail = out.detail, !.moved = mp.ok,
                       !.photo = endswith(path, MD) /\ photo_exists(fs, path)]
        /\ UNCHANGED <<sr, rq, translation_cache, st_mtime, tr, resolved, vp_in, vp_out, lock, wk, rd>>

\* a direct call of FileSystemManager.move_photo; rename_fails: the rename
\* raises OSError (it can only when there is a photo to rename)
move_photo_call(old_recipe_path, new_recipe_path, rename_fails) ==
    \E mp \in {move_photo(fs, old_recipe_path, new_recipe_path, rename_fails)} :
        /\ rename_fails => photo_exists(fs, old_recipe_path)
        /\ fs' = mp.fs
        /\ resp' = [Resp("move_photo", old_recipe_path, 200) EXCEPT
                       !.arg = new_recipe_path, !.moved = mp.ok,
                       !.fault = rename_fails,
                       !.photo = photo_exists(fs, old_recipe_path),
                       !.content = IF photo_exists(fs, old_recipe_path)
                                   THEN fs[photo_path_for(old_recipe_path).path].data
                                   ELSE <<>>]
        /\ UNCHANGED <<sr, rq, translation_cache, st_mtime, tr, resolved, vp_in, vp_out, ver, lock, wk, rd>>

\* Path.rmdir() of an empty directory
rmdir(f, d) == [f EXCEPT ![d] = Absent]


\* (mutant) the directory is removed without a look at what it holds
delete_directory_NoEmptyCheck(f, path) ==
    LET v == validated(path)
    IN  IF v.status # 200
        THEN [status |-> 400, detail |-> "Invalid path", fs |-> f]
        ELSE IF ~exists(f, v.path)
             THEN [status |-> 404, detail |-> "Directory not found", fs |-> f]
             ELSE IF ~is_dir(f, v.path)
                  THEN [status |-> 400, detail |-> "Path is not a directory", fs |-> f]
                  ELSE [status |-> 200, detail |-> "Directory deleted successfully",
                        fs |-> rmdir(f, v.path)]

\* the body of the route delete_directory, on the tree f
delete_directory(f, path) ==
    LET v == validated(path)
    IN  IF v.status # 200
        THEN [status |-> 400, detail |-> "Invalid path", fs |-> f]
        ELSE IF ~exists(f, v.path)
             THEN [status |-> 404, detail |-> "Directory not found", fs |-> f]
             ELSE IF ~is_dir(f, v.path)
                  THEN [status |-> 400, detail |-> "Path is not a directory", fs |-> f]
                  ELSE IF iterdir(f, v.path) # {}
                       THEN [status |-> 400, detail |-> "Directory is not empty",
                             fs |-> f]
                       ELSE [status |-> 200,
                             detail |-> "Directory deleted successfully",
                             fs |-> rmdir(f, v.path)]

delete_directory_route(path) ==
    \E d \in {delete_directory(fs, path)} :
        /\ fs' = d.fs
        /\ resp' = [Resp("delete_directory", path, d.status) EXCEPT
                       !.detail = d.detail]
        /\ UNCHANGED <<sr, rq, translation_cache, st_mtime, tr, resolved, vp_in, vp_out, ver, lock, wk, rd>>

list_files(path) ==
    \E l \in {list_directory(fs, path)} :
        /\ resp' = [Resp("list_files", path, l.status) EXCEPT
                       !.detail = l.detail, !.listing = l.items]
        /\ UNCHANGED <<sr, rq, translation_cache, st_mtime, tr, resolved, vp_in, vp_out, fs, ver, lock, wk, rd>>

create_directory_route(path) ==
    \E c \in {create_directory(fs, path)} :
        /\ fs' = c.fs
        /\ resp' = [Resp("create_directory", path, c.status) EXCEPT
                       !.detail = c.detail]
        /\ UNCHANGED <<sr, rq, translation_cache, st_mtime, tr, resolved, vp_in, vp_out, ver, lock, wk, rd>>

\* the 10 MiB limit of upload_photo, in bytes
MaxPhotoSize == 10485760

JPG == <<".", "j", "p", "g">>

IMAGE_JPEG == <<"i", "m", "a", "g", "e", "/", "j", "p", "e", "g">>
TEXT_PLAIN == <<"t", "e", "x", "t", "/", "p", "l", "a", "i", "n">>

\* an UploadFile: filename and content_type are <<>> when the part declares
\* none, size is the number of bytes the part holds
UploadFile(filename, content_type, size, content) ==
    [filename |-> filename, content_type |-> content_type,
     size |-> size, content |-> content]

\* the uploads that are sent: JPEGs, and files that miss one of the checks
UploadFiles ==
    { UploadFile(<<"p">> \o JPG, IMAGE_JPEG, Len(b), b) : b \in PhotoBytes }
    \cup
    { UploadFile(<<"P", ".", "J", "P", "G">>, <<>>, 1, <<"J">>),
      UploadFile(<<"p", ".", "p", "n", "g">>, IMAGE_JPEG, 1, <<"J">>),
      UploadFile(<<>>, IMAGE_JPEG, 1, <<"J">>),
      UploadFile(<<"p">> \o JPEG, TEXT_PLAIN, 1, <<"J">>),
      UploadFile(<<"p">> \o JPEG, IMAGE_JPEG \o <<"x">>, 1, <<"J">>),
      UploadFile(<<"p">> \o JPG, IMAGE_JPEG, MaxPhotoSize + 1, <<"J">>),
      UploadFile(<<"p">> \o JPG, IMAGE_JPEG, 0, <<>>) }


\* (mutant) the check of the declared content type is left out
upload_photo_checked_NoMime(f, path, file) ==
    IF file.filename = <<>>
       \/ ~(\/ endswith(lower_str(file.filename), JPG)
            \/ endswith(lower_str(file.filename), JPEG))
    THEN [status |-> 400, detail |-> "Only JPEG files are allowed", fs |-> f]
    ELSE IF file.size # 0 /\ file.size > MaxPhotoSize
    THEN [status |-> 400, detail |-> "File size must be less than 10MB", fs |-> f]
    ELSE IF file.content = <<>>
    THEN [status |-> 400, detail |-> "Uploaded file is empty", fs |-> f]
    ELSE write_photo(f, with_md(path), file.content)

\* the body of the route upload_photo, on the tree f
upload_photo_checked(f, path, file) ==
    IF file.filename = <<>>
       \/ ~(\/ endswith(lower_str(file.filename), JPG)
            \/ endswith(lower_str(file.filename), JPEG))
    THEN [status |-> 400, detail |-> "Only JPEG files are allowed", fs |-> f]
    ELSE IF file.content_type # <<>> /\ ~startswith(file.content_type, IMAGE_JPEG)
    THEN [status |-> 400, detail |-> "File must be a JPEG image", fs |-> f]
    ELSE IF file.size # 0 /\ file.size > MaxPhotoSize
    THEN [status |-> 400, detail |-> "File size must be less than 10MB", fs |-> f]
    ELSE IF file.content = <<>>
    THEN [status |-> 400, detail |-> "Uploaded file is empty", fs |-> f]
    ELSE write_photo(f, with_md(path), file.content)

upload_photo(path, file) ==
    \E out \in {upload_photo_checked(fs, path, file)} :
        /\ fs' = out.fs
        /\ resp' = [Resp("upload_photo", with_md(path), out.status) EXCEPT
                       !.arg = file.content, !.detail = out.detail,
                       !.file = file]
        /\ UNCHANGED <<sr, rq, translation_cache, st_mtime, tr, resolved, vp_in, vp_out, ver, lock, wk, rd>>

delete_photo_route(path) ==
    \E d \in {delete_photo(fs, with_md(path), FALSE)} :
        /\ fs' = d.fs
        /\ resp' = [Resp("delete_photo", with_md(path), d.status) EXCEPT
                       !.detail = d.detail]
        /\ UNCHANGED <<sr, rq, translation_cache, st_mtime, tr, resolved, vp_in, vp_out, ver, lock, wk, rd>>

----------------------------------------------------------------------------
(* api/translation.py: the translation cache, and the translation and the  *)
(* rendering that fill it.                                                 *)

\* translation_cache: Dict[str, CachedTranslation] = {}; an entry is the
\* set {e} and no entry is {}
NoCache == [p \in ClientPaths |-> {}]

CachedTranslation(translated_content, html_content, file_mtime) ==
    [translated_content |-> translated_content,
     html_content |-> html_content,
     file_mtime |-> file_mtime]


\* (mutant) an entry counts only when it is newer than the file
get_cached_translation_Newer(cache, file_path, file_mtime) ==
    LET cached == cache[file_path]
    IN  IF cached # {} /\ \A e \in cached : e.file_mtime > file_mtime
        THEN cached
        ELSE {}

\* (mutant) an entry is returned whatever its stored modification time
get_cached_translation_AnyAge(cache, file_path, file_mtime) == cache[file_path]

get_cached_translation(cache, file_path, file_mtime) ==
    LET cached == cache[file_path]
    IN  IF cached # {} /\ \A e \in cached : e.file_mtime >= file_mtime
        THEN cached
        ELSE {}

cache_translation(cache, file_path, translated_content, html_content, file_mtime) ==
    [cache EXCEPT ![file_path] =
        {CachedTranslation(translated_content, html_content, file_mtime)}]

\* the French text the translation service answers for content
french(content) == <<"f", "r", ":">> \o content

\* (mutant) an empty content is sent to the service like any other
translate_markdown_NoValidation(content, service_ok) ==
    IF ~service_ok
    THEN [raised |-> "TranslationError", text |-> <<>>]
    ELSE [raised |-> "", text |-> french(content)]

\* translate_markdown: ValueError for an empty content, TranslationError
\* when the service fails, the translated text otherwise
translate_markdown(content, service_ok) ==
    IF content = <<>> \/ \A i \in 1..Len(content) : content[i] \in {" ", "\n"}
    THEN [raised |-> "ValueError", text |-> <<>>]
    ELSE IF ~service_ok
         THEN [raised |-> "TranslationError", text |-> <<>>]
         ELSE [raised |-> "", text |-> french(content)]

\* _extract_title_from_content: the rest of the first line that starts
\* with "# " ({}: None)
RECURSIVE strip_ws(_)
strip_ws(s) ==
    IF s = <<>> THEN s
    ELSE IF Head(s) = " " THEN strip_ws(Tail(s))
    ELSE IF s[Len(s)] = " " THEN strip_ws(SubSeq(s, 1, Len(s) - 1))
    ELSE s

RECURSIVE first_heading(_)
first_heading(lines) ==
    IF lines = <<>> THEN {}
    ELSE LET line == strip_ws(Head(lines))
         IN  IF Len(line) >= 2 /\ SubSeq(line, 1, 2) = <<"#", " ">>
             THEN {strip_ws(SubSeq(line, 3, Len(line)))}
             ELSE first_heading(Tail(lines))

RECURSIVE split_lines(_, _)
split_lines(s, cur) ==
    IF s = <<>> THEN <<cur>>
    ELSE IF Head(s) = "\n" THEN <<cur>> \o split_lines(Tail(s), <<>>)
         ELSE split_lines(Tail(s), Append(cur, Head(s)))

_extract_title_from_content(content) == first_heading(split_lines(content, <<>>))

\* path.replace(".md", "").replace("_", " ").replace("-", " ").title()
title_from_path(path) ==
    title_case(replace_all(replace_all(replace_all(path, MD, <<>>),
                                       <<"_">>, <<" ">>),
                           <<"-">>, <<" ">>))

\* markdown_to_html(translated, title, photo_url): the document rendered,
\* with the recipe-photo block exactly when there is a photo_url
markdown_to_html(markdown_content, title, has_photo) ==
    [body |-> markdown_content, title |-> title, photo |-> has_photo]

NoHtml == markdown_to_html(<<>>, <<>>, FALSE)

\* (mutant) the cached HTML is never taken to show a photo
has_photo_in_cache_Never(html_content) == FALSE

\* 'class="recipe-photo"' in cached.html_content
has_photo_in_cache(html_content) == html_content.photo

NoMtime == [q \in DocFiles |-> 0]

TrResp(op, path, status) ==
    [op |-> op, path |-> path, status |-> status, m |-> 0, got |-> {},
     translated |-> FALSE, html |-> NoHtml, photo |-> FALSE, calls |-> 0,
     raised |-> ""]

NoTranslation == TrResp("init", <<>>, 0)

----------------------------------------------------------------------------
(* Search: the recursive listing and the two ranking functions of          *)
(* api/routes.py, computed on str as Python computes them.                 *)

\* sub in s
contains(s, sub) ==
    \E i \in 1..(Len(s) - Len(sub) + 1) : SubSeq(s, i, i + Len(sub) - 1) = sub

\* s.find(sub): the first index, counted from 0, or -1
str_find(s, sub) ==
    IF ~contains(s, sub) THEN -1
    ELSE (CHOOSE i \in 1..(Len(s) - Len(sub) + 1) :
             /\ SubSeq(s, i, i + Len(sub) - 1) = sub
             /\ \A j \in 1..(i - 1) : SubSeq(s, j, j + Len(sub) - 1) # sub) - 1

\* s.count(sub): the occurrences that do not overlap, from the left
RECURSIVE str_count(_, _)
str_count(s, sub) ==
    IF Len(s) < Len(sub) THEN 0
    ELSE IF SubSeq(s, 1, Len(sub)) = sub
         THEN 1 + str_count(SubSeq(s, Len(sub) + 1, Len(s)), sub)
         ELSE str_count(Tail(s), sub)

\* the characters \w matches: letters, digits and the underscore
WordChars ==
    ({ CodePoints[i] : i \in 1..Len(CodePoints) } \ {"-", ".", "/"}) \cup {"_"}

\* re.findall(r"\w+", s)
RECURSIVE findall_words(_, _)
findall_words(s, cur) ==
    IF s = <<>> THEN (IF cur = <<>> THEN <<>> ELSE <<cur>>)
    ELSE IF Head(s) \in WordChars
         THEN findall_words(Tail(s), Append(cur, Head(s)))
         ELSE (IF cur = <<>> THEN <<>> ELSE <<cur>>)
              \o findall_words(Tail(s), <<>>)

\* what goes wrong while the tree is scanned: the directories that cannot
\* be read, and those removed after their parent was listed
NoFaults == [unreadable |-> {}, vanished |-> {}]

\* the tree without the directory d and all it holds
rmtree(f, d) ==
    [q \in DOMAIN f |->
        IF q = d \/ startswith(q, d \o <<"/">>) THEN Absent ELSE f[q]]

\* fs_manager.list_directory(path) during a scan: iterdir raises on a
\* directory that cannot be read, and a removed directory does not exist
list_directory_scan(f, path, faults) ==
    LET v == validated(path)
    IN  IF v.status = 200 /\ v.path \in faults.unreadable
        THEN [status |-> 500, detail |-> "Failed to list directory", items |-> <<>>]
        ELSE IF v.status = 200 /\ v.path \in faults.vanished
             THEN list_directory(rmtree(f, v.path), path)
             ELSE list_directory(f, path)

\* _get_all_files_recursive(path): the files of the items in the order of
\* the listing, the files of a sub-directory in the place of its item
RECURSIVE _get_all_files_recursive(_, _, _)
RECURSIVE files_of_items(_, _, _, _)
files_of_items(f, path, items, faults) ==
    IF items = <<>> THEN <<>>
    ELSE LET item == Head(items)
             subpath == IF path # <<>> THEN path \o <<"/">> \o item.name
                        ELSE item.name
         IN  IF item.type = "file"
             THEN <<item>> \o files_of_items(f, path, Tail(items), faults)
             ELSE IF item.type = "directory"
             THEN _get_all_files_recursive(f, subpath, faults)
                  \o files_of_items(f, path, Tail(items), faults)
             ELSE files_of_items(f, path, Tail(items), faults)

\* (mutant) one directory that cannot be listed empties the whole scan
_get_all_files_recursive_Abort(f, path, faults) ==
    LET l == list_directory_scan(f, path, faults)
    IN  IF l.status # 200 \/ faults # NoFaults THEN <<>>
        ELSE files_of_items(f, path, l.items, faults)

_get_all_files_recursive(f, path, faults) ==
    LET l == list_directory_scan(f, path, faults)
    IN  IF l.status # 200 THEN <<>>
        ELSE files_of_items(f, path, l.items, faults)

\* (mutant) a word scores once, however often it occurs
RECURSIVE word_points_Once(_, _)
word_points_Once(query_words, content_lower) ==
    IF query_words = <<>> THEN 0
    ELSE (IF Len(Head(query_words)) >= 2 /\ contains(content_lower, Head(query_words))
          THEN 2 ELSE 0)
         + word_points_Once(Tail(query_words), content_lower)

\* the sum of word_count * 2 over the query words of length >= 2
RECURSIVE word_points(_, _)
word_points(query_words, content_lower) ==
    IF query_words = <<>> THEN 0
    ELSE (IF Len(Head(query_words)) >= 2
          THEN str_count(content_lower, Head(query_words)) * 2 ELSE 0)
         + word_points(Tail(query_words), content_lower)

\* the "word" entries of matches
RECURSIVE word_matches(_, _)
word_matches(query_words, content_lower) ==
    IF query_words = <<>> THEN <<>>
    ELSE (IF /\ Len(Head(query_words)) >= 2
             /\ str_count(content_lower, Head(query_words)) > 0
          THEN << [type |-> "word", text |-> Head(query_words),
                   at |-> str_count(content_lower, Head(query_words))] >>
          ELSE <<>>)
         \o word_matches(Tail(query_words), content_lower)

\* the title bonus of a file: the whole query in the lower-cased title
title_points(query_lower, content) ==
    LET title_match == _extract_title_from_content(content)
    IN  IF /\ title_match # {}
           /\ \E t \in title_match : t # <<>> /\ contains(lower_str(t), query_lower)
        THEN 15 ELSE 0

\* the body of the loop of _search_file_contents for one file: its score,
\* its matches and the title shown for it
content_score(query, name, content) ==
    LET query_lower == lower_str(query)
        query_words == findall_words(query_lower, <<>>)
        content_lower == lower_str(content)
        title_match == _extract_title_from_content(content)
        phrase == IF contains(content_lower, query_lower) THEN 10 ELSE 0
        words == word_points(query_words, content_lower)
        title == title_points(query_lower, content)
        filename == IF contains(lower_str(name), query_lower) THEN 8 ELSE 0
    IN  [score |-> phrase + words + title + filename,
         title |-> IF title_match # {} /\ title_match # {<<>>}
                   THEN CHOOSE t \in title_match : TRUE ELSE name,
         matches |->
             (IF phrase > 0
              THEN << [type |-> "phrase", text |-> query,
                       at |-> str_find(content_lower, query_lower)] >>
              ELSE <<>>)
             \o word_matches(query_words, content_lower)
             \o (IF title > 0
                 THEN << [type |-> "title",
                          text |-> CHOOSE t \in title_match : TRUE,
                          at |-> 0] >>
                 ELSE <<>>)
             \o (IF filename > 0
                 THEN << [type |-> "filename", text |-> name, at |-> 0] >>
                 ELSE <<>>)]

\* the one element of a set that has exactly one
the(S) == CHOOSE x \in S : TRUE

\* (mutant) equal scores change places
sort_insert_Unstable(sorted, x) ==
    LET before == Cardinality({ i \in 1..Len(sorted) : sorted[i].score >= x.score })
    IN  SubSeq(sorted, 1, before) \o <<x>> \o SubSeq(sorted, before + 1, Len(sorted))

\* x, which came before all of sorted, put behind the greater scores only
sort_insert(sorted, x) ==
    LET before == Cardinality({ i \in 1..Len(sorted) : sorted[i].score > x.score })
    IN  SubSeq(sorted, 1, before) \o <<x>> \o SubSeq(sorted, before + 1, Len(sorted))

\* results.sort(key=lambda x: x["score"], reverse=True): the sort is
\* stable, equal scores stay in the order they had
RECURSIVE sort_by_score(_)
sort_by_score(results) ==
    IF results = <<>> THEN <<>>
    ELSE the({ sort_insert(sorted, Head(results)) :
                 sorted \in {sort_by_score(Tail(results))} })

\* results[:limit]
slice_to(results, limit) ==
    IF limit >= 0
    THEN SubSeq(results, 1, IF limit < Len(results) THEN limit ELSE Len(results))
    ELSE SubSeq(results, 1, IF Len(results) + limit > 0
                            THEN Len(results) + limit ELSE 0)

\* the loop of _search_file_contents over the files of the scan
RECURSIVE content_results(_, _, _)
content_results(f, query, all_files) ==
    IF all_files = <<>> THEN <<>>
    ELSE LET file_info == Head(all_files)
             rest == content_results(f, query, Tail(all_files))
             r == read_file(f, file_info.path)
         IN  IF file_info.type # "file" \/ ~endswith(file_info.name, MD)
             THEN rest
             ELSE IF r.status # 200
             THEN rest
             ELSE the({ IF c.score <= 0 THEN rest
                        ELSE << [path |-> file_info.path,
                                 name |-> file_info.name,
                                 type |-> file_info.type, title |-> c.title,
                                 score |-> c.score,
                                 matches |-> c.matches] >> \o rest :
                        c \in {content_score(query, file_info.name,
                                             r.content)} })

_search_file_contents(f, query, limit, faults) ==
    slice_to(sort_by_score(
                 content_results(f, query,
                                 _get_all_files_recursive(f, <<>>, faults))),
             limit)

\* (mutant) every character of the query counts as found
filename_score_NoThreshold(query, name) ==
    LET query_lower == lower_str(query)
        name_lower == lower_str(name)
        matched_chars == Cardinality({ i \in 1..Len(query_lower) :
                             \E j \in 1..Len(name_lower) :
                                 name_lower[j] = query_lower[i] })
    IN  IF query_lower = name_lower THEN 100
        ELSE IF startswith(name_lower, query_lower) THEN 50
        ELSE IF contains(name_lower, query_lower) THEN 25
        ELSE matched_chars * 2

\* the score of _search_filenames for one file; matched_chars counts the
\* characters of the query, each as often as the query has it, and
\* matched_chars >= len(query_lower) * 0.7 is compared in tenths
filename_score(query, name) ==
    LET query_lower == lower_str(query)
        name_lower == lower_str(name)
        matched_chars == Cardinality({ i \in 1..Len(query_lower) :
                             \E j \in 1..Len(name_lower) :
                                 name_lower[j] = query_lower[i] })
    IN  IF query_lower = name_lower THEN 100
        ELSE IF startswith(name_lower, query_lower) THEN 50
        ELSE IF contains(name_lower, query_lower) THEN 25
        ELSE IF matched_chars * 10 >= Len(query_lower) * 7
             THEN matched_chars * 2 ELSE 0

RECURSIVE filename_results(_, _)
filename_results(query, all_files) ==
    IF all_files = <<>> THEN <<>>
    ELSE LET file_info == Head(all_files)
             rest == filename_results(query, Tail(all_files))
             score == filename_score(query, file_info.name)
         IN  IF score <= 0 THEN rest
             ELSE << [path |-> file_info.path, name |-> file_info.name,
                      type |-> file_info.type, title |-> <<>>,
                      score |-> score, matches |-> <<>>] >> \o rest

_search_filenames(f, query, limit, faults) ==
    slice_to(sort_by_score(
                 filename_results(query,
                                  _get_all_files_recursive(f, <<>>, faults))),
             limit)

\* the answer of a search route, with the faults its scan met
SrResp(op, q, limit, faults, results) ==
    [op |-> op, q |-> q, limit |-> limit, faults |-> faults, status |-> 200,
     results |-> results, total |-> Len(results)]

NoSearch == SrResp("init", <<>>, 0, NoFaults, <<>>)

\* no translate_recipe call is in flight
Clients == {"c1", "c2", "c3"}
NoRequest == [pc |-> "idle", path |-> <<>>, file_mtime |-> 0, content |-> <<>>]
NoRequests == [c \in Clients |-> NoRequest]

----------------------------------------------------------------------------
(* Spec: the store behind the routes, one request at a time.               *)

\* FileSystemManager.__init__: base_dir exists and is empty
EmptyTree == [q \in FsPaths |-> IF q = base_dir THEN Dir ELSE Absent]
NoVersions == [q \in FsPaths |-> 0]
Workers == {"w1", "w2"}
Idle == [pc |-> "idle", path |-> <<>>, content |-> <<>>, expected |-> {},
         status |-> 0, version |-> 0, read |-> 0]
NoRead == [status |-> 0, content |-> <<>>, during |-> {}]

Init ==
    /\ resolved = ResolvedPaths
    /\ vp_in = <<>>
    /\ vp_out = [status |-> 0, detail |-> "", path |-> <<>>]
    /\ fs = EmptyTree
    /\ ver = NoVersions
    /\ resp = Resp("init", <<>>, 0)
    /\ lock = [q \in FsPaths |-> "free"]
    /\ wk = [w \in Workers |-> Idle]
    /\ rd = NoRead
    /\ translation_cache = NoCache
    /\ st_mtime = NoMtime
    /\ tr = NoTranslation
    /\ sr = NoSearch
    /\ rq = NoRequests

Next ==
    \/ \E p \in ClientPaths \cup DirPaths : get_file_content(p)
    \/ \E p \in ClientPaths, c \in Contents, e \in 1..MaxVersion :
           update_file_content(p, c, e)
    \/ \E p \in ClientPaths, c \in Contents : create_file(p, c)
    \/ \E p \in BareRecipePaths, c \in Contents, e \in 1..MaxVersion :
           save_recipe(p, c, e)
    \/ \E p \in BareRecipePaths \cup {P_db} : create_recipe(p)
    \/ \E p \in ClientPaths \cup DirPaths, pf \in BOOLEAN : delete_file_route(p, pf)
    \/ \E p \in ClientPaths \cup DirPaths, d \in ClientPaths,
          rf \in BOOLEAN, pf \in BOOLEAN :
           move_file(p, d, rf, pf)
    \/ \E p \in ClientPaths, d \in ClientPaths, rf \in BOOLEAN :
           move_photo_call(p, d, rf)
    \/ \E p \in {P_root} \cup DirPaths \cup {P_a} : list_files(p)
    \/ \E p \in {P_root} \cup DirPaths \cup {P_a} : delete_directory_route(p)
    \/ \E p \in DirPaths : create_directory_route(p)
    \/ \E p \in BareRecipePaths \cup {P_db}, f \in UploadFiles : upload_photo(p, f)
    \/ \E p \in BareRecipePaths \cup {P_db} : delete_photo_route(p)

Spec == Init /\ [][Next]_vars

----------------------------------------------------------------------------
(* SpecPath: _validate_path applied to client path strings made of         *)
(* traversal fragments.                                                    *)

Fragments ==
    { <<".", ".", "/">>, <<".", ".">>, <<".", ".", ".", ".", "/", "/">>,
      <<"r", "2">>, <<"a">>, <<"/">> }

RECURSIVE Concats(_)
Concats(n) ==
    IF n = 0 THEN { <<>> }
    ELSE LET shorter == Concats(n - 1)
         IN  shorter \cup { s \o f : s \in shorter, f \in Fragments }

PathInputs == Concats(MaxFrags)

InitPath ==
    /\ resolved = ResolvedPaths
    /\ vp_in \in PathInputs
    /\ vp_out = [status |-> 0, detail |-> "", path |-> <<>>]
    /\ fs = EmptyTree
    /\ ver = NoVersions
    /\ resp = Resp("init", <<>>, 0)
    /\ lock = [q \in FsPaths |-> "free"]
    /\ wk = [w \in Workers |-> Idle]
    /\ rd = NoRead
    /\ translation_cache = NoCache
    /\ st_mtime = NoMtime
    /\ tr = NoTranslation
    /\ sr = NoSearch
    /\ rq = NoRequests

validate_request ==
    /\ vp_out.status = 0
    /\ vp_out' = _validate_path(vp_in)
    /\ UNCHANGED <<sr, rq, translation_cache, st_mtime, tr, resolved, vp_in, fs, ver, resp, lock, wk, rd>>

NextPath == validate_request

SpecPath == InitPath /\ [][NextPath]_vars

----------------------------------------------------------------------------
(* SpecConc: two editors and a reader on one document, interleaved at the  *)
(* awaits of write_file and read_file.  An editor reads the document with  *)
(* its version, then submits a write carrying the version it read.         *)

ConcPath == P_a
ConcFile == validated(ConcPath).path
InitialContent == <<"x", "y", "x">>

InitConc ==
    /\ resolved = ResolvedPaths
    /\ vp_in = <<>>
    /\ vp_out = [status |-> 0, detail |-> "", path |-> <<>>]
    /\ fs = [EmptyTree EXCEPT ![_validate_path(ConcPath).path] = File(InitialContent)]
    /\ ver = [NoVersions EXCEPT ![_validate_path(ConcPath).path] = 1]
    /\ resp = Resp("init", <<>>, 0)
    /\ lock = [q \in FsPaths |-> "free"]
    /\ wk = [w \in Workers |-> Idle]
    /\ rd = NoRead
    /\ translation_cache = NoCache
    /\ st_mtime = NoMtime
    /\ tr = NoTranslation
    /\ sr = NoSearch
    /\ rq = NoRequests


\* (mutant) no mutex: a writer never waits for another
lock_free_NoMutex(p) == TRUE

\* the per-path mutex of the versioned write
lock_free(p) == lock[p] = "free"

\* GET /files/{path}: the editor loads the document and its version
editor_load(w) ==
    LET r == read_file_with_version(Store, ConcPath)
    IN  /\ wk[w].pc = "idle"
        /\ r.status = 200
        /\ wk' = [wk EXCEPT ![w] = [Idle EXCEPT !.pc = "loaded", !.path = ConcPath,
                                                !.read = r.version]]
        /\ UNCHANGED <<sr, rq, translation_cache, st_mtime, tr, resolved, vp_in, vp_out, fs, ver, resp, lock, rd>>

\* write_file up to its first await: the mutex is taken and the expected
\* version compared; a conflict ends the call
write_begin(w, content) ==
    /\ wk[w].pc = "loaded"
    /\ lock_free(ConcFile)
    /\ version_conflict(Store, ConcFile, {wk[w].read}) \/ ver[ConcFile] < MaxVersion
    /\ IF version_conflict(Store, ConcFile, {wk[w].read})
       THEN /\ wk' = [wk EXCEPT ![w].pc = "done", ![w].status = 409,
                                ![w].content = content,
                                ![w].expected = {wk[w].read}]
            /\ UNCHANGED lock
       ELSE /\ wk' = [wk EXCEPT ![w].pc = "checked", ![w].content = content,
                                ![w].expected = {wk[w].read}]
            /\ lock' = [lock EXCEPT ![ConcFile] = w]
    /\ UNCHANGED <<sr, rq, translation_cache, st_mtime, tr, resolved, vp_in, vp_out, fs, ver, resp, rd>>

\* aiofiles.open(file_path, "w") completes: the file is truncated
write_open(w) ==
    /\ wk[w].pc = "checked"
    /\ fs' = open_w(mkdir_parents(fs, path_parent(ConcFile)).fs, ConcFile)
    /\ wk' = [wk EXCEPT ![w].pc = "opened"]
    /\ UNCHANGED <<sr, rq, translation_cache, st_mtime, tr, resolved, vp_in, vp_out, ver, resp, lock, rd>>

\* f.write(content) and the close that flushes it; the version is counted and
\* the mutex released
write_close(w) ==
    /\ wk[w].pc = "opened"
    /\ fs' = flush_close(fs, ConcFile, wk[w].content)
    /\ ver' = [ver EXCEPT ![ConcFile] = next_version(Store, ConcFile)]
    /\ lock' = [lock EXCEPT ![ConcFile] = "free"]
    /\ wk' = [wk EXCEPT ![w].pc = "done", ![w].status = 200,
                        ![w].version = next_version(Store, ConcFile)]
    /\ UNCHANGED <<sr, rq, translation_cache, st_mtime, tr, resolved, vp_in, vp_out, resp, rd>>

\* read_file by a third client, whenever it is scheduled
concurrent_read ==
    LET r == read_file(fs, ConcPath)
    IN  /\ rd' = [status |-> r.status, content |-> r.content,
                  during |-> { w \in Workers : wk[w].pc = "opened" }]
        /\ UNCHANGED <<sr, rq, translation_cache, st_mtime, tr, resolved, vp_in, vp_out, fs, ver, resp, lock, wk>>

NextConc ==
    \/ \E w \in Workers : editor_load(w)
    \/ \E w \in Workers, c \in Contents : write_begin(w, c)
    \/ \E w \in Workers : write_open(w)
    \/ \E w \in Workers : write_close(w)
    \/ concurrent_read

SpecConc == InitConc /\ [][NextConc]_vars

----------------------------------------------------------------------------
(* SpecSearch: recipes are created under the root and in the directory d,  *)
(* and the two search routes are asked, while directories of the scan may  *)
(* be unreadable or removed.                                               *)

S_choc == << "c", "h", "o", "c", "o", "l", "a", "t", "e", "-",
             "c", "o", "o", "k", "i", "e", "s", ".", "m", "d" >>
S_van == << "v", "a", "n", "i", "l", "l", "a", "-", "c", "a", "k", "e",
            ".", "m", "d" >>
S_cake == << "d", "/", "C", "a", "k", "e", ".", "m", "d" >>
\* a file that is no recipe
S_plain == << "d", "/", "c", "a", "k", "e" >>

SearchDocs == {S_choc, S_van, S_cake}
SearchFiles == SearchDocs \cup {S_plain}
SearchPaths == SearchFiles \cup {P_root, P_d}

\* "# Cake\ncake" and "choc cake cake"
K_titled == << "#", " ", "C", "a", "k", "e", "\n", "c", "a", "k", "e" >>
K_plain == << "c", "h", "o", "c", " ", "c", "a", "k", "e", " ",
              "c", "a", "k", "e" >>
SearchContents == {K_titled, K_plain}

Q_cake == << "c", "a", "k", "e" >>
Q_Cake_md == << "C", "a", "k", "e", ".", "m", "d" >>
Q_choc_cake == << "c", "h", "o", "c", " ", "c", "a", "k", "e" >>
Q_chocolate == << "c", "h", "o", "c", "o", "l", "a", "t", "e" >>
Q_c == << "c" >>
Q_padded == << " ", "c", "a", "k", "e", " " >>
Queries == {Q_cake, Q_Cake_md, Q_choc_cake, Q_chocolate, Q_c, Q_padded}

\* a limit below 0 among them: results[:limit] then drops from the end
Limits == {-1, 1, MaxLimit}

SearchResolved ==
    [validated |-> [p \in SearchPaths |-> _validate_path(p)],
     photo |-> [p \in SearchPaths |-> _get_photo_path_for_recipe(p)]]

SearchFsPaths ==
    { _validate_path(p).path : p \in SearchPaths }
        \cup { _get_photo_path_for_recipe(S_cake).path }

\* the scans that meet no fault, an unreadable d, a removed d, an
\* unreadable root
FaultCases ==
    { NoFaults,
      [unreadable |-> {_validate_path(P_d).path}, vanished |-> {}],
      [unreadable |-> {}, vanished |-> {_validate_path(P_d).path}],
      [unreadable |-> {base_dir}, vanished |-> {}] }

InitSearch ==
    /\ resolved = SearchResolved
    /\ vp_in = <<>>
    /\ vp_out = [status |-> 0, detail |-> "", path |-> <<>>]
    /\ fs = [q \in SearchFsPaths |-> IF q = base_dir THEN Dir ELSE Absent]
    /\ ver = NoVersions
    /\ resp = Resp("init", <<>>, 0)
    /\ lock = [q \in FsPaths |-> "free"]
    /\ wk = [w \in Workers |-> Idle]
    /\ rd = NoRead
    /\ translation_cache = NoCache
    /\ st_mtime = NoMtime
    /\ tr = NoTranslation
    /\ sr = NoSearch
    /\ rq = NoRequests

\* a file is created with its content
file_created(path, content) ==
    \E w \in {write_file(fs, path, content)} :
        /\ ~exists(fs, validated(path).path)
        /\ w.status = 200
        /\ fs' = w.fs
        /\ sr' = NoSearch
        /\ UNCHANGED <<rq, translation_cache, st_mtime, tr, resolved, vp_in,
                       vp_out, ver, resp, lock, wk, rd>>

\* the recipe d/Cake.md gets its photo
photo_saved ==
    \E w \in {write_photo(fs, S_cake, <<"J">>)} :
        /\ is_file(fs, validated(S_cake).path)
        /\ ~photo_exists(fs, S_cake)
        /\ w.status = 200
        /\ fs' = w.fs
        /\ sr' = NoSearch
        /\ UNCHANGED <<rq, translation_cache, st_mtime, tr, resolved, vp_in,
                       vp_out, ver, resp, lock, wk, rd>>

\* GET /search?q=..&limit=..
search_content(q, limit, faults) ==
    \E results \in { IF q = <<>> \/ Len(strip_ws(q)) < 2 THEN <<>>
                     ELSE _search_file_contents(fs, strip_ws(q), limit, faults) } :
        /\ sr' = SrResp("search_content", q, limit, faults, results)
        /\ UNCHANGED <<rq, translation_cache, st_mtime, tr, resolved, vp_in,
                       vp_out, fs, ver, resp, lock, wk, rd>>

\* GET /search/files?q=..&limit=..
search_files(q, limit, faults) ==
    \E results \in { IF q = <<>> \/ Len(strip_ws(q)) < 1 THEN <<>>
                     ELSE _search_filenames(fs, strip_ws(q), limit, faults) } :
        /\ sr' = SrResp("search_files", q, limit, faults, results)
        /\ UNCHANGED <<rq, translation_cache, st_mtime, tr, resolved, vp_in,
                       vp_out, fs, ver, resp, lock, wk, rd>>

\* the scan alone, as both searches start it
get_all_files(faults) ==
    \E all_files \in { _get_all_files_recursive(fs, <<>>, faults) } :
        /\ sr' = SrResp("_get_all_files_recursive", <<>>, 0, faults, all_files)
        /\ UNCHANGED <<rq, translation_cache, st_mtime, tr, resolved, vp_in,
                       vp_out, fs, ver, resp, lock, wk, rd>>

\* the searches that are asked: every query with every limit on a scan
\* without faults, and with the greatest limit on a scan that meets one
Searches ==
    { i \in [q : Queries, limit : Limits, faults : FaultCases] :
        i.faults # NoFaults => i.limit = MaxLimit }

NextSearch ==
    \/ \E p \in {S_van, S_cake}, c \in SearchContents : file_created(p, c)
    \/ \E p \in {S_choc, S_plain} : file_created(p, K_plain)
    \/ photo_saved
    \/ \E i \in Searches : search_content(i.q, i.limit, i.faults)
    \/ \E i \in { j \in Searches : j.q # Q_padded } :
           search_files(i.q, i.limit, i.faults)
    \/ \E x \in FaultCases : get_all_files(x)

SpecSearch == InitSearch /\ [][NextSearch]_vars

----------------------------------------------------------------------------
(* SpecTrans: the recipe a.md is written, gets and loses its photo, and is *)
(* asked for in French; the cache functions are also called directly, as   *)
(* the tests of api/translation.py call them.                              *)

TransPath == P_a
TransContents == Contents \cup { <<>> }

InitTrans ==
    /\ resolved = ResolvedPaths
    /\ vp_in = <<>>
    /\ vp_out = [status |-> 0, detail |-> "", path |-> <<>>]
    /\ fs = EmptyTree
    /\ ver = NoVersions
    /\ resp = Resp("init", <<>>, 0)
    /\ lock = [q \in FsPaths |-> "free"]
    /\ wk = [w \in Workers |-> Idle]
    /\ rd = NoRead
    /\ translation_cache = NoCache
    /\ st_mtime = NoMtime
    /\ tr = NoTranslation
    /\ sr = NoSearch
    /\ rq = NoRequests

\* the recipe is written: its modification time becomes a later one
recipe_written(content) ==
    \E w \in {write_file(fs, TransPath, content)} :
        /\ st_mtime[validated(TransPath).path] < MaxMtime
        /\ w.status = 200
        /\ fs' = w.fs
        /\ st_mtime' = [st_mtime EXCEPT ![validated(TransPath).path] = @ + 1]
        /\ tr' = TrResp("write_file", TransPath, w.status)
        /\ UNCHANGED <<sr, rq, translation_cache, resolved, vp_in, vp_out, ver, resp,
                       lock, wk, rd>>

photo_written ==
    \E w \in {write_photo(fs, TransPath, <<"J">>)} :
        /\ ~photo_exists(fs, TransPath)
        /\ fs' = w.fs
        /\ tr' = TrResp("write_photo", TransPath, w.status)
        /\ UNCHANGED <<sr, rq, translation_cache, st_mtime, resolved, vp_in, vp_out,
                       ver, resp, lock, wk, rd>>

photo_deleted ==
    \E d \in {delete_photo(fs, TransPath, FALSE)} :
        /\ photo_exists(fs, TransPath)
        /\ fs' = d.fs
        /\ tr' = TrResp("delete_photo", TransPath, d.status)
        /\ UNCHANGED <<sr, rq, translation_cache, st_mtime, resolved, vp_in, vp_out,
                       ver, resp, lock, wk, rd>>

\* a directory is made where a recipe is asked for
recipe_dir_made ==
    \E c \in {create_directory(fs, P_db)} :
        /\ ~exists(fs, validated(P_db).path)
        /\ fs' = c.fs
        /\ tr' = TrResp("create_directory", P_db, c.status)
        /\ UNCHANGED <<sr, rq, translation_cache, st_mtime, resolved, vp_in, vp_out,
                       ver, resp, lock, wk, rd>>

\* a direct call of get_cached_translation(file_path, file_mtime)
get_cached_translation_call(file_path, file_mtime) ==
    /\ tr' = [TrResp("get_cached_translation", file_path, 200) EXCEPT
                 !.m = file_mtime,
                 !.got = get_cached_translation(translation_cache, file_path,
                                                file_mtime)]
    /\ UNCHANGED <<sr, rq, translation_cache, st_mtime, resolved, vp_in, vp_out, fs,
                   ver, resp, lock, wk, rd>>

\* a direct call of cache_translation(file_path, ...)
cache_translation_call(file_path, translated_content, html_content, file_mtime) ==
    /\ translation_cache' =
           cache_translation(translation_cache, file_path, translated_content,
                             html_content, file_mtime)
    /\ tr' = [TrResp("cache_translation", file_path, 200) EXCEPT
                 !.m = file_mtime, !.html = html_content]
    /\ UNCHANGED <<sr, rq, st_mtime, resolved, vp_in, vp_out, fs, ver, resp, lock, wk, rd>>

\* the route translate_recipe, answered in one step.  service_ok: the
\* translation service answers.  The exceptions are mapped as the handler
\* maps them: FileNotFoundError of stat() to 404, ValueError to 400,
\* TranslationError to 503, every other one (the HTTPException of
\* _validate_path and of read_file too) to 500.
translate_recipe(client_path, service_ok) ==
    \E path \in {with_md(client_path)} :
    \E v \in {validated(path)} :
    \E cached \in {IF v.status = 200 /\ exists(fs, v.path)
                   THEN get_cached_translation(translation_cache, path,
                                               st_mtime[v.path])
                   ELSE {}} :
    \E has_photo_now \in {photo_exists(fs, path)} :
    \E r \in {read_file(fs, path)} :
    \E t \in {translate_markdown(r.content, service_ok)} :
    \E title \in {IF _extract_title_from_content(r.content) # {}
                  THEN CHOOSE x \in _extract_title_from_content(r.content) : TRUE
                  ELSE title_from_path(path)} :
    \E html_content \in {markdown_to_html(t.text, title, has_photo_now)} :
        /\ ~service_ok => (r.status = 200 /\ r.content # <<>>)
        /\ IF v.status # 200
           THEN /\ tr' = [TrResp("translate_recipe", path, 500) EXCEPT
                             !.raised = "HTTPException"]
                /\ UNCHANGED translation_cache
           ELSE IF ~exists(fs, v.path)
           THEN /\ tr' = [TrResp("translate_recipe", path, 404) EXCEPT
                             !.raised = "FileNotFoundError"]
                /\ UNCHANGED translation_cache
           ELSE IF /\ cached # {}
                   /\ \A e \in cached :
                          has_photo_in_cache(e.html_content) = has_photo_now
           THEN /\ tr' = [TrResp("translate_recipe", path, 200) EXCEPT
                             !.m = st_mtime[v.path], !.got = cached,
                             !.photo = has_photo_now,
                             !.html = (CHOOSE e \in cached : TRUE).html_content]
                /\ UNCHANGED translation_cache
           ELSE IF r.status # 200
           THEN /\ tr' = [TrResp("translate_recipe", path, 500) EXCEPT
                             !.m = st_mtime[v.path], !.got = cached,
                             !.photo = has_photo_now,
                             !.raised = "HTTPException"]
                /\ UNCHANGED translation_cache
           ELSE IF t.raised # ""
           THEN /\ tr' = [TrResp("translate_recipe", path,
                                 IF t.raised = "ValueError" THEN 400 ELSE 503)
                             EXCEPT !.m = st_mtime[v.path], !.got = cached,
                                    !.photo = has_photo_now, !.calls = 1,
                                    !.raised = t.raised]
                /\ UNCHANGED translation_cache
           ELSE /\ tr' = [TrResp("translate_recipe", path, 200) EXCEPT
                             !.m = st_mtime[v.path], !.got = cached,
                             !.photo = has_photo_now,
                             !.translated = TRUE, !.html = html_content,
                             !.calls = 1]
                /\ translation_cache' =
                       cache_translation(translation_cache, path, t.text,
                                         html_content, st_mtime[v.path])
        /\ UNCHANGED <<sr, rq, st_mtime, resolved, vp_in, vp_out, fs, ver, resp, lock,
                       wk, rd>>

NextTrans ==
    \/ \E c \in TransContents : recipe_written(c)
    \/ photo_written
    \/ photo_deleted
    \/ recipe_dir_made
    \/ \E p \in ClientPaths, m \in 0..MaxMtime : get_cached_translation_call(p, m)
    \/ \E p \in ClientPaths, m \in 0..MaxMtime :
           cache_translation_call(p, french(<<"y">>),
                                  markdown_to_html(french(<<"y">>),
                                                   title_from_path(p), FALSE),
                                  m)
    \/ \E p \in {P_a, <<"a">>, P_db}, ok \in BOOLEAN : translate_recipe(p, ok)

SpecTrans == InitTrans /\ [][NextTrans]_vars

----------------------------------------------------------------------------
(* SpecTransConc: two clients ask for the French a.md while it is          *)
(* rewritten.  A request is taken apart at the points where the handler    *)
(* can be overtaken: after stat(), after the cache was looked up, and      *)
(* while the translation service is awaited.                               *)

\* the content the k-th write gives the recipe: no two writes the same
DocVersion(k) == [i \in 1..k |-> "x"]

\* the k-th write of the recipe: its modification time becomes k
recipe_rewritten ==
    \E k \in {st_mtime[validated(TransPath).path] + 1} :
    \E w \in {write_file(fs, TransPath, DocVersion(k))} :
        /\ k <= MaxMtime
        /\ w.status = 200
        /\ fs' = w.fs
        /\ st_mtime' = [st_mtime EXCEPT ![validated(TransPath).path] = k]
        /\ UNCHANGED <<sr, rq, tr, translation_cache, resolved, vp_in, vp_out,
                       ver, resp, lock, wk, rd>>

\* lines 441-447: the path is validated and the file's st_mtime read; a
\* missing file ends the request with 404
rq_stat(c) ==
    \E v \in {validated(TransPath)} :
        /\ rq[c].pc = "idle"
        /\ IF ~exists(fs, v.path)
           THEN /\ tr' = [TrResp("translate_recipe", TransPath, 404) EXCEPT
                             !.raised = "FileNotFoundError"]
                /\ UNCHANGED rq
           ELSE /\ rq' = [rq EXCEPT ![c] =
                             [NoRequest EXCEPT !.pc = "stat", !.path = TransPath,
                                               !.file_mtime = st_mtime[v.path]]]
                /\ UNCHANGED tr
        /\ UNCHANGED <<sr, translation_cache, st_mtime, resolved, vp_in,
                       vp_out, fs, ver, resp, lock, wk, rd>>

\* lines 450-463: the cache is looked up with the st_mtime read before; an
\* entry rendered in the current photo state is returned
rq_lookup(c) ==
    \E cached \in {get_cached_translation(translation_cache, TransPath,
                                          rq[c].file_mtime)} :
    \E has_photo_now \in {photo_exists(fs, TransPath)} :
        /\ rq[c].pc = "stat"
        /\ IF /\ cached # {}
              /\ \A e \in cached :
                     has_photo_in_cache(e.html_content) = has_photo_now
           THEN /\ tr' = [TrResp("translate_recipe", rq[c].path, 200) EXCEPT
                             !.m = rq[c].file_mtime, !.got = cached,
                             !.photo = has_photo_now,
                             !.html = (CHOOSE e \in cached : TRUE).html_content]
                /\ rq' = [rq EXCEPT ![c] = NoRequest]
           ELSE /\ rq' = [rq EXCEPT ![c].pc = "miss"]
                /\ UNCHANGED tr
        /\ UNCHANGED <<sr, translation_cache, st_mtime, resolved, vp_in,
                       vp_out, fs, ver, resp, lock, wk, rd>>

\* lines 466-475: the file is read and handed to the translation service
rq_read(c) ==
    \E r \in {read_file(fs, TransPath)} :
        /\ rq[c].pc = "miss"
        /\ IF r.status # 200
           THEN /\ tr' = [TrResp("translate_recipe", rq[c].path, 500) EXCEPT
                             !.m = rq[c].file_mtime,
                             !.raised = "HTTPException"]
                /\ rq' = [rq EXCEPT ![c] = NoRequest]
           ELSE /\ rq' = [rq EXCEPT ![c].pc = "translating",
                                    ![c].content = r.content]
                /\ UNCHANGED tr
        /\ UNCHANGED <<sr, translation_cache, st_mtime, resolved, vp_in,
                       vp_out, fs, ver, resp, lock, wk, rd>>

\* lines 475-488: the service answers; the photo is looked for, the
\* translation rendered, stored under the st_mtime read at the start, and
\* returned
rq_finish(c, service_ok) ==
    \E t \in {translate_markdown(rq[c].content, service_ok)} :
    \E has_photo_now \in {photo_exists(fs, TransPath)} :
    \E title \in {IF _extract_title_from_content(rq[c].content) # {}
                  THEN CHOOSE x \in _extract_title_from_content(rq[c].content) : TRUE
                  ELSE title_from_path(TransPath)} :
    \E html_content \in {markdown_to_html(t.text, title, has_photo_now)} :
        /\ rq[c].pc = "translating"
        /\ rq' = [rq EXCEPT ![c] = NoRequest]
        /\ IF t.raised # ""
           THEN /\ tr' = [TrResp("translate_recipe", rq[c].path,
                                 IF t.raised = "ValueError" THEN 400 ELSE 503)
                             EXCEPT !.m = rq[c].file_mtime, !.calls = 1,
                                    !.raised = t.raised]
                /\ UNCHANGED translation_cache
           ELSE /\ tr' = [TrResp("translate_recipe", rq[c].path, 200) EXCEPT
                             !.m = rq[c].file_mtime, !.photo = has_photo_now,
                             !.translated = TRUE, !.html = html_content,
                             !.calls = 1]
                /\ translation_cache' =
                       cache_translation(translation_cache, rq[c].path, t.text,
                                         html_content, rq[c].file_mtime)
        /\ UNCHANGED <<sr, st_mtime, resolved, vp_in, vp_out, fs, ver, resp,
                       lock, wk, rd>>

NextTransConc ==
    \/ recipe_rewritten
    \/ photo_written
    \/ photo_deleted
    \/ \E c \in Clients : rq_stat(c)
    \/ \E c \in Clients : rq_lookup(c)
    \/ \E c \in Clients : rq_read(c)
    \/ \E c \in Clients, ok \in BOOLEAN : rq_finish(c, ok)

SpecTransConc == InitTrans /\ [][NextTransConc]_vars

----------------------------------------------------------------------------
(* SpecMove: recipes with photos are moved while a directory stands where  *)
(* the destination document is to be written.                              *)

NextMove ==
    \/ \E p \in ClientPaths, c \in Contents : create_file(p, c)
    \/ \E p \in BareRecipePaths \cup {P_db}, f \in UploadFiles : upload_photo(p, f)
    \/ create_directory_route(P_db)
    \/ \E p \in ClientPaths, d \in ClientPaths : move_file(p, d, FALSE, FALSE)

SpecMove == Init /\ [][NextMove]_vars

----------------------------------------------------------------------------
(* The properties.                                                         *)

VersionedWriteOps == {"update_file_content", "save_recipe"}
WriteOps == VersionedWriteOps \cup {"create_file", "create_recipe"}

\* C1: a write to an existing document that carries an expected version
\* other than the document's current version fails with the version conflict
\* (409) that reports the version sent and the current version, and leaves
\* the tree and every version counter as they were.
C1_StaleWriteRejected ==
    [][ ( /\ resp'.op \in VersionedWriteOps
          /\ is_file(fs, validated(resp'.path).path)
          /\ resp'.sent # {ver[validated(resp'.path).path]} )
        => ( /\ resp'.status = 409
             /\ resp'.expected = resp'.sent
             /\ resp'.current = ver[validated(resp'.path).path]
             /\ fs' = fs
             /\ ver' = ver ) ]_vars

\* the second editor of a document at version 2 sent version 1 and was refused
C1_Witness ==
    /\ resp.op = "update_file_content"
    /\ resp.status = 409
    /\ resp.expected = {1}
    /\ resp.current = 2
    /\ ver[validated(resp.path).path] = 2
    /\ fs[validated(resp.path).path].data # resp.arg

AllDone == \A w \in Workers : wk[w].pc = "done"

inside_root(p) == p = base_dir \/ startswith(p, base_dir \o <<"/">>)

\* C3: whatever the client path string, _validate_path either fails with
\* "Invalid path" or returns the root directory or a path beneath it, never a
\* path in a sibling directory whose name starts with the root's name.
C3_ConfinedToRoot ==
    vp_out.status = 200 => inside_root(vp_out.path)

\* the input has a "../" in it
has_dotdotslash(s) ==
    \E i \in 1..(Len(s) - 2) : SubSeq(s, i, i + 2) = <<".", ".", "/">>

\* the walk along the segments of p steps above the directory it started in
RECURSIVE climbs(_, _)
climbs(segs, depth) ==
    IF segs = <<>> THEN FALSE
    ELSE LET h == Head(segs) IN
         IF h = <<>> \/ h = <<".">> THEN climbs(Tail(segs), depth)
         ELSE IF h = <<".", ".">>
              THEN depth = 0 \/ climbs(Tail(segs), depth - 1)
              ELSE climbs(Tail(segs), depth + 1)

climbs_above_root(p) == climbs(split_slash(p, <<>>), 0)

\* C4 as stated: every input with a "../" in it, or that starts with a
\* separator, is refused, and every input that stays within the root is
\* resolved to a path prefixed by the root.
C4_TraversalRefused ==
    vp_out.status # 0 =>
        /\ (has_dotdotslash(vp_in) \/ (vp_in # <<>> /\ Head(vp_in) = "/"))
               => vp_out.status = 400
        /\ ~climbs_above_root(vp_in)
               => (vp_out.status = 200 /\ startswith(vp_out.path, base_dir))

\* C4 (amended): every "../" is deleted from the input rather than refused;
\* the input is refused only when what is left of it still climbs above the
\* root, and every input whose remainder stays within the root is resolved to
\* a path whose string is prefixed by the root's.
C4_SanitisedThenConfined ==
    vp_out.status # 0 =>
        /\ vp_out.status = 400 => climbs_above_root(clean_path(vp_in))
        /\ ~climbs_above_root(clean_path(vp_in))
               => (vp_out.status = 200 /\ inside_root(vp_out.path))
        /\ vp_out.status = 200 => startswith(vp_out.path, base_dir)

\* an input with a "../" in it was accepted and resolved beneath the root
C4_Witness ==
    /\ has_dotdotslash(vp_in)
    /\ vp_out.status = 200
    /\ vp_out.path = base_dir \o <<"/", "a">>

\* C5: a write to an existing document at version v that carries v succeeds,
\* stores exactly the submitted content, and sets and returns version v + 1.
C5_CurrentVersionWriteSucceeds ==
    [][ ( /\ resp'.op \in VersionedWriteOps
          /\ is_file(fs, validated(resp'.path).path)
          /\ resp'.sent = {ver[validated(resp'.path).path]} )
        => ( /\ resp'.status = 200
             /\ fs'[validated(resp'.path).path] = File(resp'.arg)
             /\ ver'[validated(resp'.path).path]
                    = ver[validated(resp'.path).path] + 1
             /\ resp'.version = ver[validated(resp'.path).path] + 1 ) ]_vars

\* a recipe at version 1 was saved with version 1: it holds the new content
\* at version 2
C5_Witness ==
    /\ resp.op = "save_recipe"
    /\ resp.status = 200
    /\ resp.sent = {1}
    /\ resp.version = 2
    /\ ver[validated(resp.path).path] = 2
    /\ fs[validated(resp.path).path] = File(resp.arg)

\* C6: a write to a path that does not exist succeeds with or without an
\* expected version, assigns version 1, and a read right after it returns the
\* written content with version 1.
C6_CreateThenRead ==
    [][ ( /\ resp'.op \in WriteOps
          /\ ~exists(fs, validated(resp'.path).path) )
        => ( /\ resp'.status = 200
             /\ resp'.version = 1
             /\ read_file_with_version([fs |-> fs', ver |-> ver'], resp'.path)
                    = [status |-> 200, detail |-> "",
                       content |-> resp'.arg, version |-> 1] ) ]_vars

\* a document was created by a write that carried expected version 2
C6_Witness ==
    /\ resp.op = "update_file_content"
    /\ resp.sent = {2}
    /\ resp.status = 200
    /\ resp.version = 1
    /\ read_file_with_version(Store, resp.path).content = resp.arg
    /\ read_file_with_version(Store, resp.path).version = 1

\* the request just answered wrote document q successfully
wrote(r, q) ==
    \/ r.op \in WriteOps /\ r.status = 200 /\ validated(r.path).path = q
    \/ r.op = "move_file" /\ r.status = 200 /\ validated(r.arg).path = q

\* C7: in every step, a document that exists before and after it has its
\* version raised by exactly one if the step is a successful write of it and
\* unchanged otherwise, and a document that comes into existence has version 1.
C7_VersionMonotonic ==
    [][ \A q \in { validated(p).path : p \in ClientPaths } :
          /\ (is_file(fs, q) /\ is_file(fs', q))
                 => ver'[q] = ver[q] + (IF wrote(resp', q) THEN 1 ELSE 0)
          /\ (~is_file(fs, q) /\ is_file(fs', q))
                 => ver'[q] = 1
          /\ (~is_file(fs', q)) => ver'[q] = 0 ]_vars

\* a recipe was moved onto an existing document: the destination's version
\* grew to 2 and the source path, deleted, has no version left
C7_Witness ==
    /\ resp.op = "move_file"
    /\ resp.status = 200
    /\ ver[validated(resp.arg).path] = 2
    /\ ver[validated(resp.path).path] = 0
    /\ ~exists(fs, validated(resp.path).path)

Payloads == Contents \cup {InitialContent}

\* C8: every read of the document returns the whole content of one write (or
\* the content it had at the start), never an empty, cut or mixed one, and
\* once every write has finished the document holds one of the payloads.
C8_AtomicReadWrite ==
    /\ rd.status = 200 => rd.content \in Payloads
    /\ AllDone => fs[ConcFile].data \in Payloads

\* C9: create_file, create_recipe and move_file leave the content of a
\* document that already exists at their target as it is (they carry no
\* expected version to compare).
C9_NoUncheckedOverwrite ==
    [][ /\ ( /\ resp'.op \in {"create_file", "create_recipe"}
             /\ is_file(fs, validated(resp'.path).path) )
            => fs'[validated(resp'.path).path] = fs[validated(resp'.path).path]
        /\ ( /\ resp'.op = "move_file"
             /\ resp'.arg # resp'.path
             /\ is_file(fs, validated(resp'.arg).path) )
            => fs'[validated(resp'.arg).path] = fs[validated(resp'.arg).path]
      ]_vars

C11_DeleteIgnoresPhotoState ==
    [][ ( /\ resp'.op = "delete_file"
          /\ is_file(fs, validated(resp'.path).path) )
        => ( /\ resp'.status = 200
             /\ ~exists(fs', validated(resp'.path).path) ) ]_vars

\* a recipe that had no photo was deleted
C11_Witness ==
    /\ resp.op = "delete_file"
    /\ endswith(resp.path, MD)
    /\ ~resp.photo
    /\ ~resp.fault
    /\ resp.status = 200
    /\ ~exists(fs, validated(resp.path).path)

\* C12: delete_file on a path that does not exist answers 404, on a
\* directory 400 "Path is not a file", and in both cases the tree and the
\* versions stay as they were.
C12_DeleteErrors ==
    [][ resp'.op = "delete_file" =>
          /\ ~exists(fs, validated(resp'.path).path)
                 => ( /\ resp'.status = 404
                      /\ resp'.detail = "File not found"
                      /\ fs' = fs /\ ver' = ver )
          /\ is_dir(fs, validated(resp'.path).path)
                 => ( /\ resp'.status = 400
                      /\ resp'.detail = "Path is not a file"
                      /\ fs' = fs /\ ver' = ver ) ]_vars

\* delete_file was refused on a directory that holds a recipe and its photo
C12_Witness ==
    /\ resp.op = "delete_file"
    /\ resp.status = 400
    /\ resp.detail = "Path is not a file"
    /\ is_dir(fs, validated(resp.path).path)
    /\ iterdir(fs, validated(resp.path).path) # {}

ReadOps == {"get_file_content", "move_file"}

C14_NoPhotoListed ==
    resp.op = "list_files" =>
        \A i \in 1..Len(resp.listing) :
            /\ ~(/\ resp.listing[i].type = "file"
                 /\ endswith(lower_str(resp.listing[i].name), JPEG))
            /\ \A p \in ClientPaths :
                   photo_exists(fs, p) =>
                       relative_to_base(photo_path_for(p).path)
                           # resp.listing[i].path

\* a directory that holds a recipe and its photo was listed: the recipe is
\* the one entry
C14_Witness ==
    /\ resp.op = "list_files"
    /\ resp.path = P_d
    /\ photo_exists(fs, P_db)
    /\ Len(resp.listing) = 1
    /\ resp.listing[1].path = P_db

\* C15 as stated: move_photo(old, new) with a photo at old returns True,
\* and afterwards there is no photo at old, there is one at new with the
\* bytes old had, and the parent directory of the new photo exists.
C15_PhotoMoved ==
    [][ ( /\ resp'.op = "move_photo"
          /\ resp'.photo )
        => ( /\ resp'.moved
             /\ ~photo_exists(fs', resp'.path)
             /\ photo_exists(fs', resp'.arg)
             /\ fs'[photo_path_for(resp'.arg).path].data = resp'.content
             /\ is_dir(fs', path_parent(photo_path_for(resp'.arg).path)) )
      ]_vars

\* C15 (amended): move_photo(old, new) with a photo at old, when the rename
\* does not fail, returns True, and afterwards there is a photo at new with
\* the bytes old had, its parent directory exists, and there is no photo at
\* old unless old and new name the same photo; when the rename fails it
\* returns False and the photo is still at old with its bytes.
C15_PhotoMovedUnlessSameOrFailed ==
    [][ ( /\ resp'.op = "move_photo"
          /\ resp'.photo )
        => IF resp'.fault
           THEN /\ ~resp'.moved
                /\ photo_exists(fs', resp'.path)
                /\ fs'[photo_path_for(resp'.path).path].data = resp'.content
           ELSE /\ resp'.moved
                /\ photo_exists(fs', resp'.arg)
                /\ fs'[photo_path_for(resp'.arg).path].data = resp'.content
                /\ is_dir(fs', path_parent(photo_path_for(resp'.arg).path))
                /\ photo_exists(fs', resp'.path)
                       <=> (photo_path_for(resp'.path).path
                                = photo_path_for(resp'.arg).path)
      ]_vars

\* the photo of a.md was moved to d/b.md
C15_Witness ==
    /\ resp.op = "move_photo"
    /\ resp.photo
    /\ resp.moved
    /\ resp.path = P_a
    /\ resp.arg = P_db
    /\ ~photo_exists(fs, P_a)
    /\ photo_exists(fs, P_db)
    /\ fs[photo_path_for(P_db).path].data = resp.content
    /\ is_dir(fs, validated(P_d).path)

\* C16: move_photo(old, new) with no photo at old returns True and leaves
\* the tree as it was.
C16_NoPhotoNoChange ==
    [][ ( /\ resp'.op = "move_photo"
          /\ ~resp'.photo )
        => ( /\ resp'.moved
             /\ fs' = fs
             /\ ver' = ver ) ]_vars

\* move_photo was called for a recipe without a photo, towards a directory
\* that does not exist, and the directory was not made
C16_Witness ==
    /\ resp.op = "move_photo"
    /\ ~resp.photo
    /\ resp.moved
    /\ resp.path = P_a
    /\ resp.arg = P_db
    /\ ~exists(fs, validated(P_d).path)

\* C17: a rename that fails makes move_photo return False, not raise; and a
\* move_file of an existing document whose photo could not be moved still
\* answers success, with the source document gone and, when the destination
\* is another path, the source's content at the destination.
C17_PhotoMoveFailureNotFatal ==
    [][ /\ (resp'.op = "move_photo" /\ resp'.fault)
            => (resp'.status = 200 /\ ~resp'.moved)
        /\ ( /\ resp'.op = "move_file"
             /\ is_file(fs, validated(resp'.path).path)
             /\ ~resp'.moved )
            => ( /\ resp'.status = 200
                 /\ ~exists(fs', validated(resp'.path).path)
                 /\ resp'.arg # resp'.path
                        => fs'[validated(resp'.arg).path]
                               = File(fs[validated(resp'.path).path].data) )
      ]_vars

\* a recipe was moved although its photo could not be
C17_Witness ==
    /\ resp.op = "move_file"
    /\ resp.photo
    /\ ~resp.moved
    /\ resp.status = 200
    /\ resp.arg # resp.path
    /\ ~exists(fs, validated(resp.path).path)
    /\ fs[validated(resp.arg).path] = File(resp.content)

RejectReasons ==
    { "Only JPEG files are allowed", "File must be a JPEG image",
      "File size must be less than 10MB", "Uploaded file is empty" }

jpeg_filename(file) ==
    \/ endswith(lower_str(file.filename), JPG)
    \/ endswith(lower_str(file.filename), JPEG)

\* C18 as stated: an upload whose filename does not end in .jpg/.jpeg, whose
\* declared content type is not image/jpeg, whose size is above 10 MiB or
\* whose content is empty is answered 400 with one of the four reasons, and
\* the tree stays as it was.
C18_InvalidUploadRejected ==
    [][ ( /\ resp'.op = "upload_photo"
          /\ \/ ~jpeg_filename(resp'.file)
             \/ resp'.file.content_type \notin { <<>>, IMAGE_JPEG }
             \/ resp'.file.size > MaxPhotoSize
             \/ resp'.file.content = <<>> )
        => ( /\ resp'.status = 400
             /\ resp'.detail \in RejectReasons
             /\ fs' = fs ) ]_vars

\* C18 (amended): an upload whose filename does not end in .jpg/.jpeg
\* (whatever the case of its letters), whose declared content type does not
\* begin with image/jpeg, whose size is above 10 MiB or whose content is
\* empty is answered 400 with one of the four reasons, and the tree stays as
\* it was.
C18_InvalidUploadRejectedByPrefix ==
    [][ ( /\ resp'.op = "upload_photo"
          /\ \/ ~jpeg_filename(resp'.file)
             \/ /\ resp'.file.content_type # <<>>
                /\ ~startswith(resp'.file.content_type, IMAGE_JPEG)
             \/ resp'.file.size > MaxPhotoSize
             \/ resp'.file.content = <<>> )
        => ( /\ resp'.status = 400
             /\ resp'.detail \in RejectReasons
             /\ fs' = fs ) ]_vars

\* an upload declared as text/plain was refused for a recipe that has a
\* photo, and the photo is still there
C18_Witness ==
    /\ resp.op = "upload_photo"
    /\ resp.file.content_type = TEXT_PLAIN
    /\ resp.status = 400
    /\ resp.detail = "File must be a JPEG image"
    /\ photo_exists(fs, resp.path)

\* C19: delete_directory answers 400 "Directory is not empty" for a
\* directory with a child, 404 for an absent path and 400 "Path is not a
\* directory" for a file, each time leaving the tree as it was; for an empty
\* directory it answers success and removes that directory and nothing else.
C19_DeleteDirectoryOnlyWhenEmpty ==
    [][ resp'.op = "delete_directory" =>
          /\ ~exists(fs, validated(resp'.path).path)
                 => ( /\ resp'.status = 404
                      /\ resp'.detail = "Directory not found"
                      /\ fs' = fs )
          /\ is_file(fs, validated(resp'.path).path)
                 => ( /\ resp'.status = 400
                      /\ resp'.detail = "Path is not a directory"
                      /\ fs' = fs )
          /\ ( /\ is_dir(fs, validated(resp'.path).path)
               /\ iterdir(fs, validated(resp'.path).path) # {} )
                 => ( /\ resp'.status = 400
                      /\ resp'.detail = "Directory is not empty"
                      /\ fs' = fs )
          /\ ( /\ is_dir(fs, validated(resp'.path).path)
               /\ iterdir(fs, validated(resp'.path).path) = {} )
                 => ( /\ resp'.status = 200
                      /\ fs' = [fs EXCEPT ![validated(resp'.path).path] = Absent] )
      ]_vars

\* delete_directory was refused on a directory whose one child is a photo
C19_Witness ==
    /\ resp.op = "delete_directory"
    /\ resp.path = P_d
    /\ resp.status = 400
    /\ resp.detail = "Directory is not empty"
    /\ photo_exists(fs, P_db)
    /\ ~exists(fs, validated(P_db).path)

\* C20, the two cache functions.  A direct call get_cached_translation(path, m)
\* returns the entry of path exactly when there is one whose stored
\* modification time is >= m, returns none otherwise, and changes nothing;
\* a direct call cache_translation(path, ...) makes the entry of path the
\* one built from its arguments, whatever was there, and leaves the entries
\* of the other paths as they were.
C20_GetAndPut ==
    /\ tr'.op = "get_cached_translation" =>
          /\ tr'.got = { e \in translation_cache[tr'.path] :
                             e.file_mtime >= tr'.m }
          /\ translation_cache' = translation_cache
    /\ tr'.op = "cache_translation" =>
          /\ \E e \in translation_cache'[tr'.path] :
                /\ translation_cache'[tr'.path] = {e}
                /\ e.file_mtime = tr'.m
                /\ e.html_content = tr'.html
          /\ \A q \in ClientPaths \ {tr'.path} :
                translation_cache'[q] = translation_cache[q]

\* a request translate_recipe answered 200 in a step from a state where the
\* path had the cache entry e
RequestServed(e) ==
    /\ tr'.op = "translate_recipe"
    /\ tr'.status = 200
    /\ e \in translation_cache[tr'.path]

\* the request translated the recipe again and replaced the entry of its
\* path by one stamped with the current modification time
Retranslated ==
    /\ tr'.translated
    /\ \E n \in translation_cache'[tr'.path] :
          /\ translation_cache'[tr'.path] = {n}
          /\ n.file_mtime = st_mtime[validated(tr'.path).path]
          /\ n.html_content = tr'.html

\* the request was served from the entry e, nothing translated or stored
ServedFromCache(e) ==
    /\ ~tr'.translated
    /\ tr'.html = e.html_content
    /\ translation_cache' = translation_cache

\* C20 as stated: the cache functions behave as C20_GetAndPut says, and so
\* every request for a recipe whose entry is stamped with a modification
\* time not older than the file's is served without re-translating, and
\* every request for a recipe whose file is strictly newer than its entry
\* re-translates.
C20_RepeatServedFromCache ==
    [][ /\ C20_GetAndPut
        /\ \A e \in UNION { translation_cache[q] : q \in ClientPaths } :
              RequestServed(e) =>
                 IF e.file_mtime >= st_mtime[validated(tr'.path).path]
                 THEN ServedFromCache(e)
                 ELSE Retranslated ]_vars

\* C20, amended: the cache functions behave as C20_GetAndPut says, and so a
\* request for a recipe whose entry is stamped with a modification time not
\* older than the file's is served without re-translating provided the
\* photo is present exactly if it was when the entry was rendered, and
\* every request for a recipe whose file is strictly newer than its entry
\* re-translates.
C20_RepeatServedFromCacheSamePhoto ==
    [][ /\ C20_GetAndPut
        /\ \A e \in UNION { translation_cache[q] : q \in ClientPaths } :
              RequestServed(e) =>
                 IF e.file_mtime >= st_mtime[validated(tr'.path).path]
                 THEN (has_photo_in_cache(e.html_content)
                          = photo_exists(fs, tr'.path))
                      => ServedFromCache(e)
                 ELSE Retranslated ]_vars

\* a request was served from the entry an earlier request stored, the file
\* not written in between
C20_Witness ==
    /\ tr.op = "translate_recipe"
    /\ tr.status = 200
    /\ ~tr.translated
    /\ st_mtime[validated(tr.path).path] > 0
    /\ \E e \in tr.got :
          /\ e.file_mtime = st_mtime[validated(tr.path).path]
          /\ e.html_content = tr.html
          /\ e.translated_content \in { french(c) : c \in Contents }
          /\ e.translated_content # french(<<"y">>)

\* what a request for path renders and stores when it translates the recipe
\* as the tree f holds it
RenderedNow(f, path) ==
    LET content == f[validated(path).path].data
        title == IF _extract_title_from_content(content) # {}
                 THEN CHOOSE x \in _extract_title_from_content(content) : TRUE
                 ELSE title_from_path(path)
    IN  markdown_to_html(french(content), title, photo_exists(f, path))

blank(content) ==
    \A i \in 1..Len(content) : content[i] \in {" ", "\n"}

\* C22: a request translate_recipe that fails answers 400 for a ValueError
\* (the recipe's content is empty), 503 for a TranslationError, 404 for a
\* missing file and 500 for every other failure; a request for a missing
\* file fails with 404 and one that has to translate an empty recipe with
\* 400; a failed request leaves the whole translation cache as it was and
\* has called the translation service at most once.
C22_TranslateErrorMapping ==
    [][ tr'.op = "translate_recipe" =>
          /\ (tr'.status = 200) = (tr'.raised = "")
          /\ tr'.raised = "ValueError" => tr'.status = 400
          /\ tr'.raised = "TranslationError" => tr'.status = 503
          /\ tr'.raised = "FileNotFoundError" => tr'.status = 404
          /\ tr'.raised \notin {"", "ValueError", "TranslationError",
                                "FileNotFoundError"} => tr'.status = 500
          /\ ~exists(fs, validated(tr'.path).path) => tr'.status = 404
          /\ tr'.status = 404 => ~exists(fs, validated(tr'.path).path)
          /\ ( /\ is_file(fs, validated(tr'.path).path)
               /\ blank(fs[validated(tr'.path).path].data)
               /\ tr'.got = {} ) => tr'.status = 400
          /\ tr'.status = 400 =>
                /\ is_file(fs, validated(tr'.path).path)
                /\ blank(fs[validated(tr'.path).path].data)
          /\ tr'.status = 503 =>
                /\ is_file(fs, validated(tr'.path).path)
                /\ ~blank(fs[validated(tr'.path).path].data)
                /\ tr'.calls = 1
          /\ tr'.status # 200 =>
                /\ translation_cache' = translation_cache
                /\ ~tr'.translated
                /\ tr'.calls <= 1 ]_vars

\* a request failed on the translation service while the cache held an
\* older entry of its path, which is still there
C22_Witness ==
    /\ tr.op = "translate_recipe"
    /\ tr.status = 503
    /\ tr.raised = "TranslationError"
    /\ tr.calls = 1
    /\ tr.got = {}
    /\ \E e \in translation_cache[tr.path] : e.file_mtime < tr.m

\* the file a result of a search names, and what the tree holds for it
result_content(r) == fs[validated(r.path).path].data

\* the parts of the content score that C23 and its amendment share: 10 for
\* the lower-cased query phrase in the lower-cased content, and 2 for every
\* occurrence of every lower-cased query token of length >= 2
phrase_and_token_score(query, content) ==
    LET ql == lower_str(query)
        cl == lower_str(content)
        tokens == findall_words(ql, <<>>)
        occurrences(t) ==
            Cardinality({ i \in 1..(Len(cl) - Len(t) + 1) :
                            SubSeq(cl, i, i + Len(t) - 1) = t })
        ToSum[k \in 0..Len(tokens)] ==
            IF k = 0 THEN 0
            ELSE ToSum[k - 1]
                 + (IF Len(tokens[k]) >= 2 THEN 2 * occurrences(tokens[k]) ELSE 0)
    IN  (IF \E i \in 1..(Len(cl) - Len(ql) + 1) :
               SubSeq(cl, i, i + Len(ql) - 1) = ql
         THEN 10 ELSE 0) + ToSum[Len(tokens)]

\* some query token occurs in s
token_occurs(query, s) ==
    LET tokens == findall_words(lower_str(query), <<>>)
    IN  \E k \in 1..Len(tokens) :
           \E i \in 1..(Len(s) - Len(tokens[k]) + 1) :
              SubSeq(lower_str(s), i, i + Len(tokens[k]) - 1) = tokens[k]

\* the whole lower-cased query occurs in lower-cased s
phrase_occurs(query, s) ==
    \E i \in 1..(Len(s) - Len(query) + 1) :
       SubSeq(lower_str(s), i, i + Len(query) - 1) = lower_str(query)

\* the extracted title of a content, <<>> when it has none
title_of(content) ==
    IF _extract_title_from_content(content) = {} THEN <<>>
    ELSE CHOOSE t \in _extract_title_from_content(content) : TRUE

\* the searches on which content scores are reported: the query is handed
\* to the scoring stripped of the blanks around it
ContentSearchAnswered ==
    /\ sr.op = "search_content"
    /\ Len(strip_ws(sr.q)) >= 2

\* C23 as stated: the score of every result of a content search is 10 for
\* the phrase, 2 per token occurrence, 15 if a query token occurs in the
\* title and 8 if a query token occurs in the file name.
C23_ContentScore ==
    ContentSearchAnswered =>
       \A k \in 1..Len(sr.results) :
          sr.results[k].score =
               phrase_and_token_score(strip_ws(sr.q), result_content(sr.results[k]))
             + (IF token_occurs(strip_ws(sr.q),
                                title_of(result_content(sr.results[k])))
                THEN 15 ELSE 0)
             + (IF token_occurs(strip_ws(sr.q), sr.results[k].name)
                THEN 8 ELSE 0)

\* C23, amended: the score of every result of a content search is 10 for
\* the phrase, 2 per token occurrence, 15 if the lower-cased query phrase
\* occurs in the lower-cased title and 8 if it occurs in the lower-cased
\* file name.
C23_ContentScoreByPhrase ==
    ContentSearchAnswered =>
       \A k \in 1..Len(sr.results) :
          sr.results[k].score =
               phrase_and_token_score(strip_ws(sr.q), result_content(sr.results[k]))
             + (IF phrase_occurs(strip_ws(sr.q),
                                 title_of(result_content(sr.results[k])))
                THEN 15 ELSE 0)
             + (IF phrase_occurs(strip_ws(sr.q), sr.results[k].name)
                THEN 8 ELSE 0)

\* a search for "cake" answered with a recipe that scores on all four
\* counts: the phrase, two occurrences, the title and the file name
C23_Witness ==
    /\ sr.op = "search_content"
    /\ sr.q = Q_cake
    /\ \E k \in 1..Len(sr.results) :
          /\ sr.results[k].score = 10 + 2 * 2 + 15 + 8
          /\ sr.results[k].path = S_cake
          /\ result_content(sr.results[k]) = K_titled

\* the score of a recipe for a query: phrase, tokens, title, file name
score_of(query, name, content) ==
    phrase_and_token_score(query, content)
      + (IF phrase_occurs(query, title_of(content)) THEN 15 ELSE 0)
      + (IF phrase_occurs(query, name) THEN 8 ELSE 0)

\* the answer sr lists, best first, the first n of the recipes that the
\* scan met and that score above 0 for the stripped query: a recipe comes
\* before another if it scores higher, or the same and the scan met it first
RankedRecipes(n) ==
    LET T == _get_all_files_recursive(fs, <<>>, sr.faults)
        score(i) == score_of(strip_ws(sr.q), T[i].name, result_content(T[i]))
        H == { i \in 1..Len(T) : endswith(T[i].name, MD) /\ score(i) > 0 }
        ahead(i) == { j \in H : \/ score(j) > score(i)
                                \/ score(j) = score(i) /\ j < i }
        want == IF n < 0 THEN 0
                ELSE IF n < Cardinality(H) THEN n ELSE Cardinality(H)
    IN  /\ Len(sr.results) = want
        /\ \A k \in 1..Len(sr.results) :
              \E i \in H : /\ Cardinality(ahead(i)) = k - 1
                           /\ T[i].path = sr.results[k].path
                           /\ score(i) = sr.results[k].score

\* C24 as stated: every answer of search_content lists exactly the recipes
\* that score above 0, by score descending, equal scores in the order of
\* the scan, cut to the first limit results.
C24_ContentRanking ==
    sr.op = "search_content" => RankedRecipes(sr.limit)

\* C24, amended: for a query that has at least 2 characters once stripped
\* and a limit of 0 or more, the answer of search_content lists exactly the
\* recipes that score above 0, by score descending, equal scores in the
\* order of the scan, cut to the first limit results.
C24_ContentRankingOfValidQuery ==
    (sr.op = "search_content" /\ Len(strip_ws(sr.q)) >= 2 /\ sr.limit >= 0)
       => RankedRecipes(sr.limit)

\* three recipes score for "cake", two of them the same; the answer is cut
\* to the two best, the one the scan met first before the other
C24_Witness ==
    /\ sr.op = "search_content"
    /\ sr.q = Q_cake
    /\ sr.faults = NoFaults
    /\ sr.limit = 2
    /\ Len(sr.results) = 2
    /\ sr.results[1].path = S_cake
    /\ sr.results[2].path = S_van
    /\ sr.results[1].score = sr.results[2].score
    /\ is_file(fs, validated(S_choc).path)

\* the filename score as C25 words it, for the stripped query q and a file
\* name, both taken in lower case; found is the number of query characters
\* found in the name
stated_filename_score(q, name, found) ==
    LET ql == lower_str(q)
        nl == lower_str(name)
    IN  IF ql = nl THEN 100
        ELSE IF Len(ql) <= Len(nl) /\ SubSeq(nl, 1, Len(ql)) = ql THEN 50
        ELSE IF \E i \in 1..(Len(nl) - Len(ql) + 1) :
                   SubSeq(nl, i, i + Len(ql) - 1) = ql THEN 25
        ELSE IF 10 * found >= 7 * Len(ql) THEN 2 * found
        ELSE 0

\* the distinct characters of q found in name
distinct_found(q, name) ==
    Cardinality({ c \in { lower(q[i]) : i \in 1..Len(q) } :
                    \E j \in 1..Len(name) : lower(name[j]) = c })

\* the characters of q found in name, each as often as q has it
repeated_found(q, name) ==
    Cardinality({ i \in 1..Len(q) :
                    \E j \in 1..Len(name) : lower(name[j]) = lower(q[i]) })

\* the answer lists only files of positive score, best first, and
\* "chocolate" finds chocolate-cookies.md first with 50 and not
\* vanilla-cake.md
FilenameAnswerShape ==
    /\ \A k \in 1..Len(sr.results) : sr.results[k].score > 0
    /\ \A k \in 1..(Len(sr.results) - 1) :
          sr.results[k].score >= sr.results[k + 1].score
    /\ ( /\ sr.q = Q_chocolate
         /\ sr.faults = NoFaults
         /\ sr.limit >= 1
         /\ is_file(fs, validated(S_choc).path) ) =>
            /\ Len(sr.results) >= 1
            /\ sr.results[1].path = S_choc
            /\ sr.results[1].score = 50
            /\ \A k \in 1..Len(sr.results) : sr.results[k].path # S_van

\* every file of the scan that is left out of an answer which is not cut
\* short has the score 0
LeftOutScoresZero(found(_, _)) ==
    (sr.limit > Len(sr.results)) =>
       LET T == _get_all_files_recursive(fs, <<>>, sr.faults)
       IN  \A i \in 1..Len(T) :
              (\A k \in 1..Len(sr.results) : sr.results[k].path # T[i].path)
                 => stated_filename_score(strip_ws(sr.q), T[i].name,
                        found(strip_ws(sr.q), T[i].name)) = 0

\* C25 as stated: the score of every result of a filename search is 100,
\* 50, 25, or twice the number of distinct query characters found in the
\* name when that number is at least 70% of the query length; only files
\* of positive score are returned, best first.
C25_FilenameScore ==
    sr.op = "search_files" =>
       /\ \A k \in 1..Len(sr.results) :
             sr.results[k].score =
                stated_filename_score(strip_ws(sr.q), sr.results[k].name,
                    distinct_found(strip_ws(sr.q), sr.results[k].name))
       /\ LeftOutScoresZero(distinct_found)
       /\ FilenameAnswerShape

\* C25, amended: the fuzzy score counts the query characters found in the
\* name, each as often as the query has it; the rest as stated.
C25_FilenameScoreRepeatedChars ==
    sr.op = "search_files" =>
       /\ \A k \in 1..Len(sr.results) :
             sr.results[k].score =
                stated_filename_score(strip_ws(sr.q), sr.results[k].name,
                    repeated_found(strip_ws(sr.q), sr.results[k].name))
       /\ LeftOutScoresZero(repeated_found)
       /\ FilenameAnswerShape

\* "chocolate" was searched among chocolate-cookies.md, vanilla-cake.md and
\* the files of d, and found the first alone, with 50
C25_Witness ==
    /\ sr.op = "search_files"
    /\ sr.q = Q_chocolate
    /\ sr.faults = NoFaults
    /\ is_file(fs, validated(S_van).path)
    /\ is_file(fs, validated(S_cake).path)
    /\ Len(sr.results) = 1
    /\ sr.results[1].path = S_choc
    /\ sr.results[1].score = 50

\* the directories above the node q, base_dir the topmost
RECURSIVE dirs_above(_)
dirs_above(q) ==
    IF q = base_dir \/ Len(q) <= 1 THEN {}
    ELSE {path_parent(q)} \cup dirs_above(path_parent(q))

\* the files a scan with the faults x has to return: every file of the
\* tree that is no photo and lies under directories that can all be listed
FilesToReturn(x) ==
    { relative_to_base(q) :
        q \in { q \in DOMAIN fs :
                  /\ is_file(fs, q)
                  /\ ~endswith(lower_str(q), JPEG)
                  /\ dirs_above(q) \cap (x.unreadable \cup x.vanished) = {} } }

\* C26: the scan returns file entries only, each once; it returns every
\* file that lies under directories it could list and skips what lies
\* under a directory it could not read or that was removed; and a search
\* whose scan met such a directory is answered all the same, from the files
\* the scan returned.
C26_ScanSkipsFailedSubtree ==
    /\ sr.op = "_get_all_files_recursive" =>
          /\ \A k \in 1..Len(sr.results) : sr.results[k].type = "file"
          /\ { sr.results[k].path : k \in 1..Len(sr.results) }
                = FilesToReturn(sr.faults)
          /\ Len(sr.results) = Cardinality(FilesToReturn(sr.faults))
    /\ sr.op \in {"search_content", "search_files"} =>
          /\ sr.status = 200
          /\ \A k \in 1..Len(sr.results) :
                /\ sr.results[k].type = "file"
                /\ sr.results[k].path \in FilesToReturn(sr.faults)
    /\ ( /\ sr.op = "search_files"
         /\ sr.q = Q_cake
         /\ sr.limit > Len(sr.results) ) =>
            \A p \in FilesToReturn(sr.faults) :
               \E k \in 1..Len(sr.results) : sr.results[k].path = p

\* the directory d, which holds a recipe, could not be read, and the scan
\* returned the two recipes of the root
C26_Witness ==
    /\ sr.op = "_get_all_files_recursive"
    /\ sr.faults.unreadable = { validated(P_d).path }
    /\ is_file(fs, validated(S_cake).path)
    /\ Len(sr.results) = 2
    /\ sr.results[1].path = S_choc
    /\ sr.results[2].path = S_van

\* C27: after a move_file that answered 200, reading the destination gives
\* the content the source document had before the move, whatever valid
\* destination was named, the source's own path included.
C27_MoveKeepsContent ==
    [][ (resp'.op = "move_file" /\ resp'.status = 200) =>
          /\ read_file(fs', resp'.arg).status = 200
          /\ read_file(fs', resp'.arg).content
                = fs[validated(resp'.path).path].data ]_vars

\* C28: when move_file has read the source document and then fails, which
\* it can only on writing the destination document, the source document
\* holds what it held and the source has a photo exactly if it had one.
C28_FailedMoveLeavesSource ==
    [][ ( /\ resp'.op = "move_file"
          /\ is_file(fs, validated(resp'.path).path)
          /\ resp'.status # 200 ) =>
            /\ fs'[validated(resp'.path).path] = fs[validated(resp'.path).path]
            /\ photo_exists(fs', resp'.path) = photo_exists(fs, resp'.path) ]_vars

\* the photo file that belongs to the file p: same directory, same name up
\* to the extension, .jpeg
own_photo(p) == path_join(path_parent(p), splitext_root(path_name(p)) \o JPEG)

\* C29: a request that writes the document P (create_file,
\* update_file_content, save_recipe, create_recipe) or deletes it
\* (delete_file) leaves every other document as it was, in existence,
\* content and version; a write changes no file but P, and the only file
\* but P that a delete changes is P's own photo, which it removes.
C29_OtherDocumentsUntouched ==
    [][ resp'.op \in WriteOps \cup {"delete_file"} =>
          /\ \A q \in DocFiles \ {validated(resp'.path).path} :
                fs'[q] = fs[q] /\ ver'[q] = ver[q]
          /\ \A q \in DOMAIN fs \ {validated(resp'.path).path} :
                (is_file(fs, q) /\ fs'[q] # fs[q]) =>
                   /\ resp'.op = "delete_file"
                   /\ endswith(resp'.path, MD)
                   /\ q = own_photo(validated(resp'.path).path)
                   /\ ~exists(fs', q)
          /\ \A q \in DOMAIN fs \ {validated(resp'.path).path} :
                ~is_file(fs, q) => ~is_file(fs', q) ]_vars

\* a.md was deleted with its photo while d/b.md and its photo stayed
C29_Witness ==
    /\ resp.op = "delete_file"
    /\ resp.status = 200
    /\ resp.path = P_a
    /\ resp.photo
    /\ ~exists(fs, validated(P_a).path)
    /\ ~photo_exists(fs, P_a)
    /\ is_file(fs, validated(P_db).path)
    /\ photo_exists(fs, P_db)

\* C30: a request for a.md that is answered from the cache returns the
\* translation of a content the recipe was given by the write that set the
\* modification time the request read, or by a later write: never of an
\* earlier content.
C30_NoStaleCacheHit ==
    (tr.op = "translate_recipe" /\ tr.status = 200 /\ ~tr.translated) =>
       \E k \in tr.m..MaxMtime : tr.html.body = french(DocVersion(k))

\* a request that read the modification time of the first write was
\* overtaken by the second write and by a request that stored the
\* translation of the second content under the first modification time; it
\* was then answered from the cache with that translation
C30_Witness ==
    /\ tr.op = "translate_recipe"
    /\ tr.status = 200
    /\ ~tr.translated
    /\ tr.m = 1
    /\ tr.html.body = french(DocVersion(2))
    /\ st_mtime[validated(TransPath).path] = 2

====
